---- MODULE Spec2Model ----
(***************************************************************************)
(* A model of the Totem daemon (src/totem_daemon.py) and of the hardware   *)
(* modules it drives (src/hardware/face.py, lcd.py, touch.py).             *)
(*                                                                         *)
(* Threads of the program and how they appear here:                        *)
(*   - connection workers (TotemDaemon._handle_client), one per accepted   *)
(*     connection: the elements of Workers;                                *)
(*   - the GPIO callback thread that runs TouchModule._gpio_callback and,  *)
(*     through the event upcall, TotemDaemon._on_event: Sensors;           *)
(*   - background-effect workers (the face animations, the lcd scroll):    *)
(*     the entries of fx, numbered in the order they are started.          *)
(* Every thread has a position pc[t]; a thread inside a module's           *)
(* handle_command has a call record hc[t] whose field "at" is its position *)
(* inside the module.                                                      *)
(***************************************************************************)
EXTENDS Integers, Sequences, FiniteSets, TLC

\* ------------------------------------------------------------------ bounds
\* longest batch list a client sends
MaxBatch == 2
\* connections accepted in one behaviour of Spec
MaxRequests == 2
\* events the touch sensor emits in one behaviour of Spec
MaxEvents == 3
\* last value of the wall clock (seconds) in Spec
MaxTime == 10
\* events the touch sensor emits in one behaviour of SpecQueue
MaxQueueEvents == 103
\* connections accepted in one behaviour of SpecFx
MaxFxRequests == 2
\* connections served in SpecDraw
MaxDrawRequests == 2
\* connections accepted in one behaviour of SpecLife
MaxLifeRequests == 2
\* connections accepted in one behaviour of SpecClient
MaxConnections == 3
\* connections accepted and events emitted in one behaviour of SpecSystem
MaxSystemRequests == 2
MaxSystemEvents == 2
\* connections accepted in one behaviour of SpecRoute
MaxRouteRequests == 2
\* connections accepted in one behaviour of SpecStop
MaxStopRequests == 2
\* connections accepted and events emitted in one behaviour of SpecTouch
MaxTouchRequests == 2
MaxTouchEvents == 4
\* SpecReads: events emitted before the first connection, connections
\* accepted, and events emitted in all
Backlog == 99
MaxReads == 2
\* the largest magnitude of an integer parameter
MaxLevel == 3000
MaxReadEvents == 103

\* ------------------------------------------------------- program constants
\* totem_daemon.py:131-132  "Keep at most 100 events"
QueueCap == 100
\* totem_daemon.py:60  self._notify_cooldown = 5
NotifyCooldown == 5
\* lcd.py:21  LCD_COLS = 16
LCD_COLS == 16
\* touch.py:22  DEFAULT_DEBOUNCE = 200
DEFAULT_DEBOUNCE == 200

Workers == {"w1", "w2"}
Sensors == {"gpio"}
Threads == Workers \cup Sensors
NoThread == "none"

\* names the registry can hold after start-up (hardware/*.py, each module's name)
ModuleNames == {"face", "lcd", "touch"}

Min(a, b) == IF a < b THEN a ELSE b
Max(a, b) == IF a > b THEN a ELSE b

\* ------------------------------------------------------------ JSON values
\* A request is a JSON value.  shape is what json.loads returns: a dict
\* ("object") or something else ("number", "string"); "invalid" is a text
\* json.loads rejects, "undecodable" bytes that end inside a character and
\* "none" no text at all.  For a dict, hasBatch
\* says whether the key "batch" is present, and module/action/params are
\* msg.get(..., default): an absent module is "", absent params are NoParams.
\* batchIs is the shape of the value under "batch" and batch what iterating
\* over that value yields: the entries of a list, the characters of a
\* string, the keys of an object.
NoParams == [name |-> "", text |-> "", peek |-> FALSE, frames |-> 0, loop |-> FALSE,
             duration |-> 0]

Obj(module, action, params) ==
    [shape |-> "object", hasBatch |-> FALSE, batchIs |-> "list", batch |-> <<>>,
     module |-> module, action |-> action, params |-> params]

Batch(cmds) ==
    [shape |-> "object", hasBatch |-> TRUE, batchIs |-> "list", batch |-> cmds,
     module |-> "", action |-> "", params |-> NoParams]

NonObject(shape) ==
    [shape |-> shape, hasBatch |-> FALSE, batchIs |-> "list", batch |-> <<>>,
     module |-> "", action |-> "", params |-> NoParams]

\* {"batch": v} for a v that is no list: a number, a string of n characters,
\* an object of n keys
BatchOf(is, n) ==
    [shape |-> "object", hasBatch |-> TRUE, batchIs |-> is,
     batch |-> [i \in 1..n |-> NonObject("string")],
     module |-> "", action |-> "", params |-> NoParams]

Named(n) == [NoParams EXCEPT !.name = n]
Text(s) == [NoParams EXCEPT !.text = s]
Peek(b) == [NoParams EXCEPT !.peek = b]
Frames(n, loop) == [NoParams EXCEPT !.frames = n, !.loop = loop]
Animation(n, d) == [NoParams EXCEPT !.name = n, !.duration = d]

\* ---------------------------------------------------------------- responses
\* A Response is {ok, data | error}.  kind tells the payloads apart; results
\* is the batch's list of sub-responses, events/count the payload of the
\* events action, avail the module names an unknown-module error lists or a
\* status answer has entries for, failed those of them whose entry is an
\* inline {"error": ...} and snap the state snapshots of the others.
Resp(ok, kind) ==
    [ok |-> ok, kind |-> kind, results |-> <<>>, hasResults |-> FALSE,
     events |-> <<>>, count |-> 0, avail |-> {}, failed |-> {}, snap |-> <<>>]

\* hardware/base.py  _ok / _err
_ok(kind) == Resp(TRUE, kind)
_err(kind) == Resp(FALSE, kind)

NoResp == Resp(FALSE, "none")
NoCall == [mod |-> "", action |-> "", params |-> NoParams, at |-> "none"]
NoEvent == [n |-> 0, module |-> "", event |-> "", timestamp |-> 0, now |-> 0]

VARIABLES
    \* TotemDaemon
    modules,            \* self._modules: the names registered
    lock,               \* self._lock: the thread holding it, or NoThread
    events,             \* self._events
    events_lock,        \* self._events_lock: holder or NoThread
    last_notify_time,   \* self._last_notify_time
    notify,             \* self._notify_enabled and self._openclaw_bin
    clock,              \* time.time(), whole seconds
    \* threads
    pc,                 \* position of every thread
    hc,                 \* the handle_command call a thread is inside
    hres,               \* the Response that call returned
    \* connection workers
    req,                \* the request read from the connection
    cur,                \* msg of the running handle_message
    stack,              \* the enclosing _handle_batch frames
    ret,                \* value returned by the last handle_message
    results,            \* _handle_compound's results list
    response,           \* what the worker wrote to the connection
    served,             \* connections accepted so far
    \* GPIO callback thread and TouchModule
    pin,                \* GPIO.input read by the callback
    ev,                 \* the event _on_event is handling
    touch,              \* TouchModule fields, with its _lock
    nev,                \* events emitted so far (numbers the events)
    \* FaceModule / LCDModule and their effect workers
    face,
    lcd,
    fx,                 \* effect workers, by start order
    hw,                 \* per module: who wrote to the hardware
    \* history
    emitted,            \* numbers of the events appended since the last non-peek read
    stored,             \* numbers of the events ever appended to the queue
    tests,              \* the cooldown tests taken: event, now, last_notify_time
    reacted,            \* numbers of the events whose local reaction ran
    dispatched,         \* events an external notification was started for
    orphans,            \* effect workers a timed-out join has left running
    joined,             \* effect workers a join has waited for until they ended
    delivered,          \* numbers of the events non-peek reads have returned
    sent,               \* the last event type the touch sensor emitted and the
                        \* touched events it emitted since the last reset
    \* the numbers the modules store
    settings,           \* face._brightness, sound._volume, touch._debounce_ms
    \* the main thread: start(), the accept loop, _shutdown()
    main,               \* its position
    running,            \* self._running
    order,              \* the discovered modules in the order self._modules keeps
    base_upcall,        \* whether HardwareModule provides set_event_callback
    server,             \* self._server: "none", "listening" or "closed"
    sockfile,           \* the process whose socket SOCKET_PATH names: "none"
                        \* (no file), "first" (this daemon) or "second"
    pidfile,            \* the process whose id PID_FILE holds: "none" (no
                        \* file), "first" or "second"
    second,             \* a second totem_daemon.py process: its position
    \* history of the modules' lifecycle
    initlog,            \* the modules init() was called on, in call order
    init_failed,        \* the modules whose init() raised
    wired,              \* the modules set_event_callback has wired
    cleanlog,           \* the modules cleanup() was called on, in call order
    clean_failed,       \* the modules whose cleanup() raised
    late                \* connections accepted after self._running was cleared

daemonVars == <<modules, lock, events, events_lock, last_notify_time, notify, clock>>
threadVars == <<pc, hc, hres>>
workerVars == <<req, cur, stack, ret, results, response, served>>
sensorVars == <<pin, ev, touch, nev>>
moduleVars == <<face, lcd, fx, hw>>
histVars == <<emitted, stored, tests, reacted, dispatched, orphans, joined,
              delivered, sent>>
lifeVars == <<main, running, order, base_upcall, second, server, sockfile, pidfile,
              initlog, init_failed, wired, cleanlog, clean_failed, late>>
vars == <<daemonVars, threadVars, workerVars, sensorVars, moduleVars, histVars,
          settings, lifeVars>>

\* ------------------------------------------------------------------- Init
\* The daemon as it starts serving: start() has discovered and initialised
\* the modules, so the registry holds those whose init() succeeded (the touch
\* sensor among them), both locks are free and the event log is empty
\* (__init__, lines 48-60).  The wall clock is far past the epoch, so the
\* first cooldown test passes: the clock starts at NotifyCooldown.
Registries == {ModuleNames, ModuleNames \ {"face"}, ModuleNames \ {"lcd"}, {"touch"}}

\* What is recorded of the writes to a module's device: last is who wrote
\* last (0 is the thread inside handle_command, k > 0 is effect worker k)
\* and wrote the effect workers that have written at least once.
NoWrites == [last |-> 0, wrote |-> {}]

NoFx == [mod |-> "", kind |-> "", pc |-> "unborn", i |-> 0, n |-> 0,
         loop |-> FALSE, finite |-> FALSE]

\* the names of S in the order os.listdir gives their files in
Listed(S) == SelectSeq(<<"face", "lcd", "totem", "touch">>, LAMBDA m : m \in S)

\* the main thread in its accept loop, every discovered module initialised
\* and wired (start(), lines 325-342)
Serving ==
    /\ main = "accept"
    /\ running = TRUE
    /\ order = Listed(modules)
    /\ base_upcall = TRUE
    /\ server = "listening"
    /\ sockfile = "first"
    /\ pidfile = "first"
    /\ second = "absent"
    /\ initlog = order
    /\ init_failed = {}
    /\ wired = modules
    /\ cleanlog = <<>>
    /\ clean_failed = {}
    /\ late = 0

\* the modules' constructors: face.py line 54, sound.py line 35, touch.py
\* line 46
Defaults == [brightness |-> 128, volume |-> 80, debounce_ms |-> DEFAULT_DEBOUNCE]

\* TotemDaemon.__init__ (lines 48-60) and the modules' constructors: locks
\* free, event log empty, no thread running, nothing shown
Fresh(notifies) ==
    /\ lock = NoThread
    /\ events = <<>>
    /\ events_lock = NoThread
    /\ last_notify_time = 0
    /\ notify \in notifies
    /\ clock = NotifyCooldown
    /\ pc = [t \in Threads |-> "idle"]
    /\ hc = [t \in Threads |-> NoCall]
    /\ hres = [t \in Threads |-> NoResp]
    /\ req = [w \in Workers |-> NonObject("none")]
    /\ cur = [w \in Workers |-> NonObject("none")]
    /\ stack = [w \in Workers |-> <<>>]
    /\ ret = [w \in Workers |-> NoResp]
    /\ results = [w \in Workers |-> <<>>]
    /\ response = [w \in Workers |-> NoResp]
    /\ served = 0
    /\ pin = [g \in Sensors |-> FALSE]
    /\ ev = [g \in Sensors |-> NoEvent]
    /\ touch = [is_touched |-> FALSE, touch_count |-> 0, lock |-> NoThread]
    /\ nev = 0
    /\ face = [expr |-> "none", anim |-> "none", thread |-> 0, stop |-> FALSE]
    /\ lcd = [line1 |-> "", line2 |-> "", thread |-> 0, stop |-> FALSE]
    /\ fx = <<>>
    /\ hw = [m \in {"face", "lcd"} |-> NoWrites]
    /\ settings = Defaults
    /\ emitted = <<>>
    /\ stored = {}
    /\ tests = <<>>
    /\ reacted = {}
    /\ dispatched = <<>>
    /\ orphans = {}
    /\ joined = {}
    /\ delivered = {}
    /\ sent = [last |-> "", touches |-> 0]

InitWith(registries, notifies) ==
    /\ modules \in registries
    /\ Serving
    /\ Fresh(notifies)

\* ---------------------------------------------------------- command router
\* all(r.get("ok", False) for r in results)   (lines 243, 305)
all_ok(rs) == \A i \in 1..Len(rs) : rs[i].ok

\* Route without the registry test of line 226: every named module is taken
\* to be registered.
RouteUnchecked(msg, registry) ==
    IF msg.shape = "invalid" THEN "invalid"
    ELSE IF msg.shape # "object" THEN "raise"
    ELSE IF msg.hasBatch THEN (IF msg.batchIs = "number" THEN "raise" ELSE "batch")
    ELSE IF msg.module = "" THEN "system"
    ELSE IF msg.module = "totem" THEN "compound"
    ELSE "module"

\* Route with the registry test of line 226 moved before the test for
\* "totem" of line 221: a registered module named totem takes its commands
RouteRegistryFirst(msg, registry) ==
    IF msg.shape = "invalid" THEN "invalid"
    ELSE IF msg.shape # "object" THEN "raise"
    ELSE IF msg.hasBatch THEN (IF msg.batchIs = "number" THEN "raise" ELSE "batch")
    ELSE IF msg.module = "" THEN "system"
    ELSE IF msg.module \in registry THEN "module"
    ELSE IF msg.module = "totem" THEN "compound"
    ELSE "unknown"

\* Where handle_message sends msg (lines 203-235), in the order the code
\* tests: a text json.loads rejects is answered at once; a value that is not
\* a dict raises at '"batch" in msg' or at msg.get; then batch (whose
\* "for cmd in commands" of line 240 raises for a number), system, compound,
\* unknown module, module.
Route(msg, registry) ==
    IF msg.shape = "invalid" THEN "invalid"
    ELSE IF msg.shape # "object" THEN "raise"
    ELSE IF msg.hasBatch THEN (IF msg.batchIs = "number" THEN "raise" ELSE "batch")
    ELSE IF msg.module = "" THEN "system"
    ELSE IF msg.module = "totem" THEN "compound"
    ELSE IF msg.module \notin registry THEN "unknown"
    ELSE "module"

\* get_state of the face (face.py, lines 63-69), the lcd (lcd.py, lines
\* 69-77) and the touch sensor (touch.py, lines 67-75): the fields the model
\* keeps, as two texts, a count and a flag
get_state(m) ==
    CASE m = "face" -> [s1 |-> face.expr, s2 |-> face.anim, n |-> 0,
                        b |-> face.thread # 0 /\ fx[face.thread].pc # "dead"]
      [] m = "lcd" -> [s1 |-> lcd.line1, s2 |-> lcd.line2, n |-> 0, b |-> FALSE]
      [] OTHER -> [s1 |-> "", s2 |-> "", n |-> touch.touch_count, b |-> touch.is_touched]

\* the status loop without the try of lines 254-257: a get_state() that
\* raises fails the whole call
_handle_system_unguarded(action, F) ==
    IF action = "ping" THEN _ok("pong")
    ELSE IF action = "status"
    THEN IF F # {} THEN _err("exception")
         ELSE [_ok("status") EXCEPT !.avail = modules,
                                    !.snap = [m \in modules |-> get_state(m)]]
    ELSE IF action = "capabilities" THEN [_ok("capabilities") EXCEPT !.avail = modules]
    ELSE _err("unknown_system_action")

\* _handle_system for the actions that touch no lock (lines 246-277);
\* F is the set of modules whose get_state() raises in the status loop
\* (lines 253-257).
\* "events" is GetEventsLock/_get_events below.
_handle_system(action, F) ==
    IF action = "ping" THEN _ok("pong")
    ELSE IF action = "status"
    THEN [_ok("status") EXCEPT !.avail = modules, !.failed = F,
                               !.snap = [m \in modules \ F |-> get_state(m)]]
    ELSE IF action = "capabilities" THEN [_ok("capabilities") EXCEPT !.avail = modules]
    ELSE _err("unknown_system_action")

\* Unknown module '...'. Available: [...]   (lines 226-230)
UnknownModule(registry) == [_err("unknown_module") EXCEPT !.avail = registry]

\* threading.Lock: acquire succeeds only when nobody holds the lock
LockFree(l) == l = NoThread

Call(m, a, p) == [mod |-> m, action |-> a, params |-> p, at |-> "begin"]

\* _handle_client, lines 373-390: one request is read from a new connection
Accept(w, R, max) ==
    /\ pc[w] = "idle"
    /\ served < max
    /\ \E r \in R :
        /\ req' = [req EXCEPT ![w] = r]
        /\ cur' = [cur EXCEPT ![w] = r]
    /\ served' = served + 1
    /\ pc' = [pc EXCEPT ![w] = "handle_message"]
    /\ UNCHANGED <<daemonVars, hc, hres, stack, ret, results, response, sensorVars,
                   moduleVars, histVars>>

\* the main loop has accepted a connection and started _handle_client on
\* it (lines 360-362): data = b""   (line 376)
Connect(w, max) ==
    /\ pc[w] = "idle"
    /\ served < max
    /\ served' = served + 1
    /\ req' = [req EXCEPT ![w] = NonObject("none")]
    /\ pc' = [pc EXCEPT ![w] = "recv"]
    /\ UNCHANGED <<lifeVars, settings, daemonVars, hc, hres, cur, stack, ret, results, response,
                   sensorVars, moduleVars, histVars>>

\* _handle_client, lines 378-387: a chunk arrives and the bytes read so far
\* do not parse; the loop reads on.  Only the first such chunk changes what
\* the worker holds: bytes, where it held none.
RecvPartial(w) ==
    /\ pc[w] = "recv"
    /\ req[w].shape = "none"
    /\ req' = [req EXCEPT ![w] = NonObject("invalid")]
    /\ UNCHANGED <<lifeVars, settings, daemonVars, threadVars, cur, stack, ret, results, response,
                   served, sensorVars, moduleVars, histVars>>

\* _handle_client, lines 378-387: a chunk arrives that ends inside a
\* multi-byte character.  json.loads(data) decodes the bytes first and raises
\* UnicodeDecodeError, which "except json.JSONDecodeError" does not catch: the
\* read loop is left for the handler of lines 392-397.
RecvSplit(w) ==
    /\ pc[w] = "recv"
    /\ req' = [req EXCEPT ![w] = NonObject("undecodable")]
    /\ pc' = [pc EXCEPT ![w] = "raise"]
    /\ UNCHANGED <<lifeVars, settings, daemonVars, hc, hres, cur, stack, ret, results, response,
                   served, sensorVars, moduleVars, histVars>>

\* _handle_client, lines 378-385 and 389-390: a chunk arrives and the bytes
\* read so far parse as the JSON value r; the loop ends and handle_message
\* is called on them
RecvComplete(w, R) ==
    /\ pc[w] = "recv"
    /\ \E r \in R :
        /\ req' = [req EXCEPT ![w] = r]
        /\ cur' = [cur EXCEPT ![w] = r]
    /\ pc' = [pc EXCEPT ![w] = "handle_message"]
    /\ UNCHANGED <<lifeVars, settings, daemonVars, hc, hres, stack, ret, results, response,
                   served, sensorVars, moduleVars, histVars>>

\* _handle_client, lines 379-380 and 389-390: recv returns b"", the client
\* has closed its sending side.  With no bytes read the worker goes to
\* conn.close(); with bytes read, parsed or not, handle_message is called on
\* them.
RecvEOF(w) ==
    /\ pc[w] = "recv"
    /\ IF req[w].shape = "none"
       THEN /\ pc' = [pc EXCEPT ![w] = "close"]
            /\ UNCHANGED cur
       ELSE /\ cur' = [cur EXCEPT ![w] = req[w]]
            /\ pc' = [pc EXCEPT ![w] = "handle_message"]
    /\ UNCHANGED <<lifeVars, settings, daemonVars, hc, hres, req, stack, ret, results, response,
                   served, sensorVars, moduleVars, histVars>>

\* handle_message, lines 203-233, up to the point where it blocks or returns
handle_message(w) ==
    /\ pc[w] = "handle_message"
    /\ LET msg == cur[w]
           to == Route(msg, modules)
       IN  /\ pc' = [pc EXCEPT ![w] =
                  CASE to = "raise" -> "raise"
                    [] to = "batch" -> "handle_batch"
                    [] to = "system" /\ msg.action = "events" -> "get_events"
                    [] to = "compound" /\ msg.action = "express" -> "express_face"
                    [] to = "module" -> "lock_wait"
                    [] OTHER -> "return"]
           /\ \E F \in (IF to = "system" /\ msg.action = "status"
                       THEN SUBSET modules ELSE {{}}) :
                ret' = [ret EXCEPT ![w] =
                  CASE to = "system" /\ msg.action # "events" -> _handle_system(msg.action, F)
                    [] to = "compound" /\ msg.action # "express" -> _err("unknown_compound_action")
                    [] to = "unknown" -> UnknownModule(modules)
                    [] to = "invalid" -> _err("invalid_json")
                    [] OTHER -> @]
           /\ stack' = [stack EXCEPT ![w] =
                  IF to = "batch"
                  THEN <<[cmds |-> msg.batch, i |-> 1, results |-> <<>>]>> \o @
                  ELSE @]
           /\ results' = [results EXCEPT ![w] = <<>>]
    /\ UNCHANGED <<lifeVars, settings, daemonVars, hc, hres, req, cur, response, served, sensorVars,
                   moduleVars, histVars>>

\* _handle_batch as a transaction would have it: the loop ends at the first
\* entry that answers ok: false
_handle_batch_stopping(w) ==
    /\ pc[w] = "handle_batch"
    /\ LET f == Head(stack[w])
           failed == f.results # <<>> /\ ~f.results[Len(f.results)].ok
       IN  IF f.i <= Len(f.cmds) /\ ~failed
           THEN /\ cur' = [cur EXCEPT ![w] = f.cmds[f.i]]
                /\ pc' = [pc EXCEPT ![w] = "handle_message"]
                /\ UNCHANGED <<ret, stack>>
           ELSE /\ ret' = [ret EXCEPT ![w] =
                       [Resp(all_ok(f.results), "batch") EXCEPT
                           !.results = f.results, !.hasResults = TRUE]]
                /\ stack' = [stack EXCEPT ![w] = Tail(@)]
                /\ pc' = [pc EXCEPT ![w] = "return"]
                /\ UNCHANGED cur
    /\ UNCHANGED <<lifeVars, settings, daemonVars, hc, hres, req, results, response, served,
                   sensorVars,
                   moduleVars, histVars>>

\* _handle_batch, lines 239-244: the loop head.  json.dumps(cmd) followed by
\* json.loads gives back the entry itself, cmd being a parsed JSON value.
_handle_batch(w) ==
    /\ pc[w] = "handle_batch"
    /\ LET f == Head(stack[w])
       IN  IF f.i <= Len(f.cmds)
           THEN /\ cur' = [cur EXCEPT ![w] = f.cmds[f.i]]
                /\ pc' = [pc EXCEPT ![w] = "handle_message"]
                /\ UNCHANGED <<ret, stack>>
           ELSE /\ ret' = [ret EXCEPT ![w] =
                       [Resp(all_ok(f.results), "batch") EXCEPT
                           !.results = f.results, !.hasResults = TRUE]]
                /\ stack' = [stack EXCEPT ![w] = Tail(@)]
                /\ pc' = [pc EXCEPT ![w] = "return"]
                /\ UNCHANGED cur
    /\ UNCHANGED <<lifeVars, settings, daemonVars, hc, hres, req, results, response, served,
                   sensorVars,
                   moduleVars, histVars>>

\* line 242: results.append(result), when handle_message returns to a batch
BatchAppend(w) ==
    /\ pc[w] = "return"
    /\ stack[w] # <<>>
    /\ stack' = [stack EXCEPT ![w] =
           <<[Head(@) EXCEPT !.results = Append(@, ret[w]), !.i = @ + 1]>> \o Tail(@)]
    /\ pc' = [pc EXCEPT ![w] = "handle_batch"]
    /\ UNCHANGED <<lifeVars, settings, daemonVars, hc, hres, req, cur, ret, results, response,
                   served,
                   sensorVars, moduleVars, histVars>>

\* _handle_client, lines 390-391: the response is written to the connection
Respond(w) ==
    /\ pc[w] = "return"
    /\ stack[w] = <<>>
    /\ response' = [response EXCEPT ![w] = ret[w]]
    /\ ret' = [ret EXCEPT ![w] = NoResp]
    /\ pc' = [pc EXCEPT ![w] = "close"]
    /\ UNCHANGED <<lifeVars, settings, daemonVars, hc, hres, req, cur, stack, results, served,
                   sensorVars, moduleVars, histVars>>

\* _handle_client, line 399: conn.close(); the worker thread ends
Close(w) ==
    /\ pc[w] = "close"
    /\ req' = [req EXCEPT ![w] = NonObject("none")]
    /\ cur' = [cur EXCEPT ![w] = NonObject("none")]
    /\ results' = [results EXCEPT ![w] = <<>>]
    /\ response' = [response EXCEPT ![w] = NoResp]
    /\ hres' = [hres EXCEPT ![w] = NoResp]
    /\ pc' = [pc EXCEPT ![w] = "idle"]
    /\ UNCHANGED <<lifeVars, settings, daemonVars, hc, stack, ret, served, sensorVars,
                   moduleVars, histVars>>

\* Raise without the except and finally clauses of lines 392-399: the
\* exception ends the worker thread, nothing is written and nothing closed
RaiseUncaught(w) ==
    /\ pc[w] = "raise"
    /\ stack' = [stack EXCEPT ![w] = <<>>]
    /\ req' = [req EXCEPT ![w] = NonObject("none")]
    /\ cur' = [cur EXCEPT ![w] = NonObject("none")]
    /\ pc' = [pc EXCEPT ![w] = "idle"]
    /\ UNCHANGED <<lifeVars, settings, daemonVars, hc, hres, ret, results, response, served,
                   sensorVars, moduleVars, histVars>>

\* An exception raised in handle_message leaves every enclosing _handle_batch
\* and is caught in _handle_client (lines 392-397), which answers
\* {"ok": False, "error": str(e)}
Raise(w) ==
    /\ pc[w] = "raise"
    /\ stack' = [stack EXCEPT ![w] = <<>>]
    /\ response' = [response EXCEPT ![w] = _err("exception")]
    /\ ret' = [ret EXCEPT ![w] = NoResp]
    /\ pc' = [pc EXCEPT ![w] = "close"]
    /\ UNCHANGED <<lifeVars, settings, daemonVars, hc, hres, req, cur, results, served, sensorVars,
                   moduleVars, histVars>>

\* lines 232-235: with self._lock: the lock is taken and handle_command called
ModuleCall(w) ==
    /\ pc[w] = "lock_wait"
    /\ LockFree(lock)
    /\ lock' = w
    /\ hc' = [hc EXCEPT ![w] = Call(cur[w].module, cur[w].action, cur[w].params)]
    /\ pc' = [pc EXCEPT ![w] = "handle_command"]
    /\ UNCHANGED <<lifeVars, settings, modules, events, events_lock, last_notify_time, notify,
                   clock,
                   hres, workerVars, sensorVars, moduleVars, histVars>>

\* ModuleReturn keeping the lock for the background effect the command has
\* started: the lock is freed only when no effect worker is left running
ModuleReturnHolding(w) ==
    /\ pc[w] = "handle_command"
    /\ hc[w].at = "ret"
    /\ lock' = IF \E k \in 1..Len(fx) : fx[k].pc # "dead" THEN w ELSE NoThread
    /\ ret' = [ret EXCEPT ![w] = hres[w]]
    /\ hc' = [hc EXCEPT ![w] = NoCall]
    /\ pc' = [pc EXCEPT ![w] = "return"]
    /\ UNCHANGED <<lifeVars, settings, modules, events, events_lock, last_notify_time, notify,
                   clock, hres, req, cur, stack, results, response, served,
                   sensorVars, moduleVars, histVars>>

\* line 235: handle_command has returned; leaving the with block frees the lock
ModuleReturn(w) ==
    /\ pc[w] = "handle_command"
    /\ hc[w].at = "ret"
    /\ lock' = NoThread
    /\ ret' = [ret EXCEPT ![w] = hres[w]]
    /\ hc' = [hc EXCEPT ![w] = NoCall]
    /\ pc' = [pc EXCEPT ![w] = "return"]
    /\ UNCHANGED <<lifeVars, settings, modules, events, events_lock, last_notify_time, notify,
                   clock,
                   hres, req, cur, stack, results, response, served, sensorVars,
                   moduleVars, histVars>>

\* params.get("emotion", "neutral")   (line 283)
Emotion(p) == IF p.name = "" THEN "neutral" ELSE p.name

\* _handle_compound, lines 281-292: the face step of express
ExpressFace(w) ==
    /\ pc[w] = "express_face"
    /\ IF "face" \in modules
       THEN /\ LockFree(lock)
            /\ lock' = w
            /\ hc' = [hc EXCEPT ![w] = Call("face", "expression", Named(Emotion(cur[w].params)))]
            /\ pc' = [pc EXCEPT ![w] = "express_face_call"]
       ELSE /\ pc' = [pc EXCEPT ![w] = "express_lcd"]
            /\ UNCHANGED <<lock, hc>>
    /\ UNCHANGED <<lifeVars, settings, modules, events, events_lock, last_notify_time, notify,
                   clock,
                   hres, workerVars, sensorVars, moduleVars, histVars>>

\* ExpressFaceReturn giving up on a failed face step: express returns the
\* failure at once and the lcd step is not run
ExpressFaceReturnStopping(w) ==
    /\ pc[w] = "express_face_call"
    /\ hc[w].at = "ret"
    /\ results' = [results EXCEPT ![w] = Append(@, hres[w])]
    /\ lock' = NoThread
    /\ hc' = [hc EXCEPT ![w] = NoCall]
    /\ IF hres[w].ok
       THEN /\ pc' = [pc EXCEPT ![w] = "express_lcd"]
            /\ UNCHANGED ret
       ELSE /\ pc' = [pc EXCEPT ![w] = "return"]
            /\ ret' = [ret EXCEPT ![w] = Resp(FALSE, "express")]
    /\ UNCHANGED <<lifeVars, settings, modules, events, events_lock, last_notify_time, notify,
                   clock,
                   hres, req, cur, stack, response, served, sensorVars,
                   moduleVars, histVars>>

\* lines 292-293: the face step returned; results.append(r); the lock is freed
ExpressFaceReturn(w) ==
    /\ pc[w] = "express_face_call"
    /\ hc[w].at = "ret"
    /\ results' = [results EXCEPT ![w] = Append(@, hres[w])]
    /\ lock' = NoThread
    /\ hc' = [hc EXCEPT ![w] = NoCall]
    /\ pc' = [pc EXCEPT ![w] = "express_lcd"]
    /\ UNCHANGED <<lifeVars, settings, modules, events, events_lock, last_notify_time, notify,
                   clock,
                   hres, req, cur, stack, ret, response, served, sensorVars,
                   moduleVars, histVars>>

\* lines 296-306: the lcd step of express, or the return when it is skipped
ExpressLcd(w) ==
    /\ pc[w] = "express_lcd"
    /\ IF "lcd" \in modules /\ cur[w].params.text # ""
       THEN /\ LockFree(lock)
            /\ lock' = w
            /\ hc' = [hc EXCEPT ![w] = Call("lcd", "write", Text(cur[w].params.text))]
            /\ pc' = [pc EXCEPT ![w] = "express_lcd_call"]
            /\ UNCHANGED ret
       ELSE /\ ret' = [ret EXCEPT ![w] = Resp(all_ok(results[w]), "express")]
            /\ pc' = [pc EXCEPT ![w] = "return"]
            /\ UNCHANGED <<lock, hc>>
    /\ UNCHANGED <<lifeVars, settings, modules, events, events_lock, last_notify_time, notify,
                   clock,
                   hres, req, cur, stack, results, response, served, sensorVars,
                   moduleVars, histVars>>

\* lines 300-306: the lcd step returned; the lock is freed and express returns
ExpressLcdReturn(w) ==
    /\ pc[w] = "express_lcd_call"
    /\ hc[w].at = "ret"
    /\ results' = [results EXCEPT ![w] = Append(@, hres[w])]
    /\ ret' = [ret EXCEPT ![w] = Resp(all_ok(Append(results[w], hres[w])), "express")]
    /\ lock' = NoThread
    /\ hc' = [hc EXCEPT ![w] = NoCall]
    /\ pc' = [pc EXCEPT ![w] = "return"]
    /\ UNCHANGED <<lifeVars, settings, modules, events, events_lock, last_notify_time, notify,
                   clock,
                   hres, req, cur, stack, response, served, sensorVars,
                   moduleVars, histVars>>

\* Trim keeping the oldest entries, self._events[:100], instead of the newest
TrimOldest(q) == IF Len(q) > QueueCap THEN SubSeq(q, 1, QueueCap) ELSE q

\* ------------------------------------------------------------ event queue
\* lines 131-132: self._events = self._events[-100:] when longer than 100
Trim(q) == IF Len(q) > QueueCap THEN SubSeq(q, Len(q) - QueueCap + 1, Len(q)) ELSE q

\* AfterRead without the peek test of line 197: every read clears the queue
AfterReadCleared(q, peek) == <<>>

\* lines 197-198: a read that is no peek clears the queue
AfterRead(q, peek) == IF peek THEN q ELSE <<>>

\* _get_events, line 195: with self._events_lock
GetEventsLock(w) ==
    /\ pc[w] = "get_events"
    /\ LockFree(events_lock)
    /\ events_lock' = w
    /\ pc' = [pc EXCEPT ![w] = "get_events_locked"]
    /\ UNCHANGED <<lifeVars, settings, modules, lock, events, last_notify_time, notify, clock,
                   hc, hres,
                   workerVars, sensorVars, moduleVars, histVars>>

\* _get_events, lines 196-199, and the response of line 275
_get_events(w) ==
    /\ pc[w] = "get_events_locked"
    /\ LET peek == cur[w].params.peek
       IN  /\ ret' = [ret EXCEPT ![w] =
                  [_ok("events") EXCEPT !.events = events, !.count = Len(events)]]
           /\ events' = AfterRead(events, peek)
           /\ emitted' = AfterRead(emitted, peek)
           /\ delivered' = IF peek THEN delivered
                           ELSE delivered \cup {events[i].n : i \in 1..Len(events)}
    /\ events_lock' = NoThread
    /\ pc' = [pc EXCEPT ![w] = "return"]
    /\ UNCHANGED <<lifeVars, settings, modules, lock, last_notify_time, notify, clock, hc, hres,
                   req, cur, stack, results, response, served, sensorVars,
                   moduleVars, stored, tests, reacted, dispatched, orphans, joined,
                   sent>>

\* ---------------------------------------------------- modules: shared parts
\* thread.is_alive() of effect worker k (0 is None)
Alive(k) == k # 0 /\ fx[k].pc # "dead"

Written(h, who) ==
    [last |-> who, wrote |-> IF who = 0 THEN h.wrote ELSE h.wrote \cup {who}]

\* the record of a worker whose thread has ended
Dead == [NoFx EXCEPT !.pc = "dead"]

Returned(t, r) ==
    /\ hc' = [hc EXCEPT ![t].at = "ret"]
    /\ hres' = [hres EXCEPT ![t] = r]

Moved(t, at) ==
    /\ hc' = [hc EXCEPT ![t].at = at]
    /\ UNCHANGED hres

\* ------------------------------------------------------------- FaceModule
\* expr_lib.get_expression(name) is not None
get_expression(name) == name \in {"happy", "sad", "surprised", "neutral"}

\* face.py lines 292-298
Animations == {"thinking", "speaking", "listening", "sleeping", "idle_blink"}

\* the frames an animation cycles through (face.py lines 468-473, 523)
NFrames(name) == 4

\* the actions of handle_command that first call _stop_animation
FaceStopping == {"expression", "animate", "stop", "sequence", "blink", "custom"}

\* the drawing actions, lines 346-426: they change the buffer or the device
\* and never call _stop_animation
FaceDrawing == {"pixel", "line", "rect", "ellipse", "text", "clear", "invert",
                "brightness", "flush"}

\* handle_command's dispatch and each command's own parameter test
\* (lines 235-270, 275-280, 289-301, 429-432): "" when the command goes on
FaceRejects(a, p) ==
    IF a \notin FaceStopping \cup FaceDrawing THEN "unknown_action"
    ELSE IF a = "custom" /\ p.frames # 8 THEN "bad_grid"
    ELSE IF a = "expression" /\ ~get_expression(p.name) THEN "unknown_expression"
    ELSE IF a = "animate" /\ p.name \notin Animations THEN "unknown_animation"
    ELSE IF a = "sequence" /\ p.frames = 0 THEN "no_frames"
    ELSE ""

\* handle_command up to _stop_animation's test and self._anim_stop.set()
\* (lines 455-458)
FaceBegin(t) ==
    /\ hc[t].at = "begin"
    /\ hc[t].mod = "face"
    /\ LET why == FaceRejects(hc[t].action, hc[t].params)
       IN  IF why # ""
           THEN /\ Returned(t, _err(why))
                /\ UNCHANGED face
           ELSE IF hc[t].action \in FaceDrawing
           THEN /\ Moved(t, "writing")
                /\ UNCHANGED face
           ELSE IF Alive(face.thread)
           THEN /\ face' = [face EXCEPT !.stop = TRUE]
                /\ Moved(t, "join")
           ELSE /\ Moved(t, "stopped")
                /\ UNCHANGED face
    /\ UNCHANGED <<lifeVars, settings, daemonVars, pc, workerVars, sensorVars, lcd, fx, hw,
                   histVars>>

\* line 459 without the wait: _stop_animation goes on at once, whether the
\* worker has ended or not
FaceJoinSkipped(t) ==
    /\ hc[t].at = "join"
    /\ hc[t].mod = "face"
    /\ Moved(t, "stopped")
    /\ UNCHANGED <<lifeVars, settings, daemonVars, pc, workerVars, sensorVars, moduleVars,
                   histVars>>

\* line 459: self._anim_thread.join(timeout=2) returns because the worker ended
FaceJoin(t) ==
    /\ hc[t].at = "join"
    /\ hc[t].mod = "face"
    /\ ~Alive(face.thread)
    /\ Moved(t, "stopped")
    /\ joined' = joined \cup {face.thread}
    /\ UNCHANGED <<lifeVars, settings, daemonVars, pc, workerVars, sensorVars, moduleVars,
                   emitted, stored,
                   tests, reacted, dispatched, orphans, delivered, sent>>

\* line 459: the join gives up after its 2 seconds, the worker still alive
FaceJoinTimeout(t) ==
    /\ hc[t].at = "join"
    /\ hc[t].mod = "face"
    /\ Alive(face.thread)
    /\ Moved(t, "stopped")
    /\ orphans' = orphans \cup {face.thread}
    /\ UNCHANGED <<lifeVars, settings, daemonVars, pc, workerVars, sensorVars, moduleVars,
                   emitted, stored,
                   tests, reacted, dispatched, joined, delivered, sent>>

\* the worker threading.Thread(target=animations[name] / _anim_sequence) starts
NewFaceFx(a, p) ==
    IF a = "animate"
    THEN [mod |-> "face", kind |-> p.name, pc |-> "while", i |-> 0,
          n |-> NFrames(p.name), loop |-> TRUE, finite |-> p.duration > 0]
    ELSE [mod |-> "face", kind |-> "sequence", pc |-> "while", i |-> 0,
          n |-> p.frames, loop |-> p.loop, finite |-> FALSE]

\* The rest of the command after the join: _stop_animation's lines 460-461,
\* then lines 282-286 (expression), 304-311 (animate), 316 (stop),
\* 435-441 (sequence)
FaceFinish(t) ==
    /\ hc[t].at = "stopped"
    /\ hc[t].mod = "face"
    /\ LET a == hc[t].action
           p == hc[t].params
           stopped == [face EXCEPT !.thread = 0, !.anim = "none"]
       IN  CASE a = "expression" ->
                  /\ face' = [stopped EXCEPT !.expr = p.name]
                  /\ hw' = [hw EXCEPT !["face"] = Written(@, 0)]
                  /\ Returned(t, _ok("expression"))
                  /\ UNCHANGED fx
             [] a = "custom" ->
                  /\ face' = [stopped EXCEPT !.expr = "custom"]
                  /\ hw' = [hw EXCEPT !["face"] = Written(@, 0)]
                  /\ Returned(t, _ok("custom"))
                  /\ UNCHANGED fx
             [] a = "blink" ->
                  /\ face' = stopped
                  /\ hw' = [hw EXCEPT !["face"] = Written(@, 0)]
                  /\ Returned(t, _ok("blink"))
                  /\ UNCHANGED fx
             [] a = "stop" ->
                  /\ face' = stopped
                  /\ Returned(t, _ok("stopped"))
                  /\ UNCHANGED <<fx, hw>>
             [] a = "animate" ->
                  /\ face' = [stopped EXCEPT !.anim = p.name, !.expr = "none",
                                             !.stop = FALSE, !.thread = Len(fx) + 1]
                  /\ fx' = Append(fx, NewFaceFx(a, p))
                  /\ Returned(t, _ok("animation"))
                  /\ UNCHANGED hw
             [] a = "sequence" ->
                  /\ face' = [stopped EXCEPT !.anim = "sequence",
                                             !.stop = FALSE, !.thread = Len(fx) + 1]
                  /\ fx' = Append(fx, NewFaceFx(a, p))
                  /\ Returned(t, _ok("sequence"))
                  /\ UNCHANGED hw
    /\ UNCHANGED <<lifeVars, settings, daemonVars, pc, workerVars, sensorVars, lcd, histVars>>

\* A drawing command, lines 346-426: the buffer is changed and flushed to the
\* device (brightness sets the device's contrast), whatever worker runs;
\* clear also forgets the expression (line 404)
FaceDraw(t) ==
    /\ hc[t].at = "writing"
    /\ hc[t].mod = "face"
    /\ face' = IF hc[t].action = "clear" THEN [face EXCEPT !.expr = "none"] ELSE face
    /\ hw' = [hw EXCEPT !["face"] = Written(@, 0)]
    /\ Returned(t, _ok("drawn"))
    /\ UNCHANGED <<lifeVars, settings, daemonVars, pc, workerVars, sensorVars, lcd, fx, histVars>>

\* -------------------------------------------------------------- LCDModule
\* the actions of handle_command that first call _stop_scroll
LcdStopping == {"write", "scroll", "clear", "stop_scroll", "progress"}

\* the low-level actions, lines 301-380 but clear: they drive self._lcd and
\* never call _stop_scroll
LcdDrawing == {"write_at", "home", "cursor", "cursor_mode", "display", "backlight",
               "shift", "create_char", "write_char", "raw_command", "raw_write"}

\* len(text) of the texts the requests carry
StrLen(s) ==
    CASE s = "" -> 0
      [] s = "hi" -> 2
      [] s = "I felt that!" -> 12
      [] OTHER -> 1

\* handle_command up to _stop_scroll's test and self._scroll_stop.set()
\* (lines 204-241, 405-408)
LcdBegin(t) ==
    /\ hc[t].at = "begin"
    /\ hc[t].mod = "lcd"
    /\ IF hc[t].action \notin LcdStopping \cup LcdDrawing
       THEN /\ Returned(t, _err("unknown_action"))
            /\ UNCHANGED lcd
       ELSE IF hc[t].action \in LcdDrawing
       THEN /\ Moved(t, "writing")
            /\ UNCHANGED lcd
       ELSE IF Alive(lcd.thread)
       THEN /\ lcd' = [lcd EXCEPT !.stop = TRUE]
            /\ Moved(t, "join")
       ELSE /\ Moved(t, "stopped")
            /\ UNCHANGED lcd
    /\ UNCHANGED <<lifeVars, settings, daemonVars, pc, workerVars, sensorVars, face, fx, hw,
                   histVars>>

\* line 409: self._scroll_thread.join(timeout=2) returns, the worker ended
LcdJoin(t) ==
    /\ hc[t].at = "join"
    /\ hc[t].mod = "lcd"
    /\ ~Alive(lcd.thread)
    /\ Moved(t, "stopped")
    /\ joined' = joined \cup {lcd.thread}
    /\ UNCHANGED <<lifeVars, settings, daemonVars, pc, workerVars, sensorVars, moduleVars,
                   emitted, stored,
                   tests, reacted, dispatched, orphans, delivered, sent>>

\* line 409: the join gives up after its 2 seconds, the worker still alive
LcdJoinTimeout(t) ==
    /\ hc[t].at = "join"
    /\ hc[t].mod = "lcd"
    /\ Alive(lcd.thread)
    /\ Moved(t, "stopped")
    /\ orphans' = orphans \cup {lcd.thread}
    /\ UNCHANGED <<lifeVars, settings, daemonVars, pc, workerVars, sensorVars, moduleVars,
                   emitted, stored,
                   tests, reacted, dispatched, joined, delivered, sent>>

\* _scroll_worker's thread: range(len(padded) - LCD_COLS + 1), lines 414-415
NewScroll(p) ==
    [mod |-> "lcd", kind |-> "scroll", pc |-> "for", i |-> 1,
     n |-> StrLen(p.text) + LCD_COLS + 1, loop |-> FALSE, finite |-> FALSE]

\* The rest of the command after the join: _stop_scroll's line 410, then
\* lines 254-262 (write), 270-275 (scroll), 311-314 (clear), 384 (stop_scroll)
LcdFinish(t) ==
    /\ hc[t].at = "stopped"
    /\ hc[t].mod = "lcd"
    /\ LET a == hc[t].action
           p == hc[t].params
           stopped == [lcd EXCEPT !.thread = 0]
       IN  CASE a = "write" ->
                  /\ lcd' = [stopped EXCEPT !.line1 = p.text, !.line2 = ""]
                  /\ hw' = [hw EXCEPT !["lcd"] = Written(@, 0)]
                  /\ Returned(t, _ok("write"))
                  /\ UNCHANGED fx
             [] a = "progress" ->
                  /\ lcd' = [stopped EXCEPT !.line1 = p.text, !.line2 = "bar"]
                  /\ hw' = [hw EXCEPT !["lcd"] = Written(@, 0)]
                  /\ Returned(t, _ok("progress"))
                  /\ UNCHANGED fx
             [] a = "clear" ->
                  /\ lcd' = [stopped EXCEPT !.line1 = "", !.line2 = ""]
                  /\ hw' = [hw EXCEPT !["lcd"] = Written(@, 0)]
                  /\ Returned(t, _ok("clear"))
                  /\ UNCHANGED fx
             [] a = "stop_scroll" ->
                  /\ lcd' = stopped
                  /\ Returned(t, _ok("stop_scroll"))
                  /\ UNCHANGED <<fx, hw>>
             [] a = "scroll" ->
                  /\ lcd' = [stopped EXCEPT !.stop = FALSE, !.thread = Len(fx) + 1]
                  /\ fx' = Append(fx, NewScroll(p))
                  /\ Returned(t, _ok("scrolling"))
                  /\ UNCHANGED hw
    /\ UNCHANGED <<lifeVars, settings, daemonVars, pc, workerVars, sensorVars, face, histVars>>

\* A low-level command, lines 301-380: self._lcd is driven, whatever worker
\* runs; the lines the module remembers stay as they are
LcdDraw(t) ==
    /\ hc[t].at = "writing"
    /\ hc[t].mod = "lcd"
    /\ hw' = [hw EXCEPT !["lcd"] = Written(@, 0)]
    /\ Returned(t, _ok("drawn"))
    /\ UNCHANGED <<lifeVars, settings, daemonVars, pc, workerVars, sensorVars, face, lcd, fx,
                   histVars>>

\* ---------------------------------------------- faults inside a command
\* CommandFault without the except clause of handle_command: the exception
\* leaves handle_command, the with block of handle_message frees the lock
\* and _handle_client catches it
CommandFaultUncaught(t) ==
    /\ t \in Workers
    /\ pc[t] = "handle_command"
    /\ hc[t].mod \in {"face", "lcd"}
    /\ hc[t].at \in {"stopped", "writing"}
    /\ hc' = [hc EXCEPT ![t] = NoCall]
    /\ lock' = NoThread
    /\ pc' = [pc EXCEPT ![t] = "raise"]
    /\ UNCHANGED <<lifeVars, settings, modules, events, events_lock, last_notify_time, notify,
                   clock, hres, workerVars, sensorVars, moduleVars, histVars>>

\* handle_command of the face (face.py, lines 236 and 269-270) and of the lcd
\* (lcd.py, lines 205 and 240-241): an exception raised inside a _cmd_
\* method, by a parameter of the wrong type or by the device, is caught and
\* answered _err(str(e)); what the command had not yet done stays undone
CommandFault(t) ==
    /\ t \in Workers
    /\ pc[t] = "handle_command"
    /\ hc[t].mod \in {"face", "lcd"}
    /\ hc[t].at \in {"stopped", "writing"}
    /\ Returned(t, _err("exception"))
    /\ UNCHANGED <<lifeVars, settings, daemonVars, pc, workerVars, sensorVars, moduleVars,
                   histVars>>

\* ------------------------------------------------------------ TouchModule
\* handle_command, lines 105-116: read answers at once, reset needs
\* self._lock, config re-registers the edge detection (lines 123-139)
TouchBegin(t) ==
    /\ hc[t].at = "begin"
    /\ hc[t].mod = "touch"
    /\ CASE hc[t].action = "read" -> Returned(t, _ok("touch_state"))
         [] hc[t].action = "config" -> Returned(t, _ok("config"))
         [] hc[t].action = "reset" -> Moved(t, "touch_lock")
         [] OTHER -> Returned(t, _err("unknown_action"))
    /\ UNCHANGED <<lifeVars, settings, daemonVars, pc, workerVars, sensorVars, moduleVars,
                   histVars>>

\* _cmd_reset, lines 143-146: with self._lock: self._touch_count = 0
TouchReset(t) ==
    /\ hc[t].at = "touch_lock"
    /\ hc[t].mod = "touch"
    /\ LockFree(touch.lock)
    /\ touch' = [touch EXCEPT !.touch_count = 0]
    /\ sent' = [sent EXCEPT !.touches = 0]
    /\ Returned(t, _ok("reset"))
    /\ UNCHANGED <<lifeVars, settings, daemonVars, pc, workerVars, pin, ev, nev, moduleVars,
                   emitted, stored, tests, reacted, dispatched, orphans, joined,
                   delivered>>

\* ------------------------------------------------------- effect workers
\* self._anim_stop.is_set() / self._scroll_stop.is_set() as worker k sees it
StopSet(k) == IF fx[k].mod = "face" THEN face.stop ELSE lcd.stop

\* FxFor without the test of lines 476, 554 and 416: the frame loop only
\* ends with its frames
FxForUnchecked(k) ==
    /\ k \in 1..Len(fx)
    /\ fx[k].pc = "for"
    /\ LET over == fx[k].i > fx[k].n
           after == CASE fx[k].kind = "scroll" -> Dead
                      [] fx[k].kind = "sequence" /\ ~fx[k].loop -> [fx[k] EXCEPT !.pc = "end"]
                      [] OTHER -> [fx[k] EXCEPT !.pc = "while"]
       IN  fx' = [fx EXCEPT ![k] = IF over THEN after ELSE [@ EXCEPT !.pc = "write"]]
    /\ UNCHANGED <<lifeVars, settings, daemonVars, threadVars, workerVars, sensorVars, face, lcd,
                   hw,
                   histVars>>

\* the loop head of an animation: while time.time() < end_time and not
\* stop (line 474), or while not stop (line 552); a finite duration may be
\* over at any test
FxWhile(k) ==
    /\ k \in 1..Len(fx)
    /\ fx[k].pc = "while"
    /\ \/ /\ ~StopSet(k)
          /\ fx' = [fx EXCEPT ![k].pc = "for", ![k].i = 1]
       \/ /\ StopSet(k) \/ fx[k].finite
          /\ fx' = [fx EXCEPT ![k] = IF fx[k].kind = "sequence"
                                      THEN [@ EXCEPT !.pc = "end"] ELSE Dead]
    /\ UNCHANGED <<lifeVars, settings, daemonVars, threadVars, workerVars, sensorVars, face, lcd,
                   hw,
                   histVars>>

\* the frame loop: for ... : if stop.is_set(): break (lines 475-477, 553-555,
\* 415-417), and what follows the loop (line 562 for a sequence)
FxFor(k) ==
    /\ k \in 1..Len(fx)
    /\ fx[k].pc = "for"
    /\ LET over == fx[k].i > fx[k].n \/ StopSet(k)
           after == CASE fx[k].kind = "scroll" -> Dead
                      [] fx[k].kind = "sequence" /\ ~fx[k].loop -> [fx[k] EXCEPT !.pc = "end"]
                      [] OTHER -> [fx[k] EXCEPT !.pc = "while"]
       IN  fx' = [fx EXCEPT ![k] = IF over THEN after ELSE [@ EXCEPT !.pc = "write"]]
    /\ UNCHANGED <<lifeVars, settings, daemonVars, threadVars, workerVars, sensorVars, face, lcd,
                   hw,
                   histVars>>

\* one frame: the worker draws and writes to the device, then waits on the
\* stop event, which ends at the timeout or when the event is set
\* (lines 478-482, 559-561, 418-421)
FxWrite(k) ==
    /\ k \in 1..Len(fx)
    /\ fx[k].pc = "write"
    /\ hw' = [hw EXCEPT ![fx[k].mod] = Written(@, k)]
    /\ fx' = [fx EXCEPT ![k].pc = "for", ![k].i = @ + 1]
    /\ UNCHANGED <<lifeVars, settings, daemonVars, threadVars, workerVars, sensorVars, face, lcd,
                   histVars>>

\* _anim_sequence, line 564: self._current_animation = None, and the thread ends
FxEnd(k) ==
    /\ k \in 1..Len(fx)
    /\ fx[k].pc = "end"
    /\ face' = [face EXCEPT !.anim = "none"]
    /\ fx' = [fx EXCEPT ![k] = Dead]
    /\ UNCHANGED <<lifeVars, settings, daemonVars, threadVars, workerVars, sensorVars, lcd, hw,
                   histVars>>

\* ------------------------------------------- GPIO callback and _on_event
\* the entry self._events holds for an event (lines 119-125)
Queued(e) == [n |-> e.n, module |-> e.module, event |-> e.event,
              timestamp |-> e.timestamp]

\* the test of line 139 left out: every touched event goes on
CooldownAlways(now, last) == TRUE

\* the test of line 139 with > for >=
CooldownStrict(now, last) == now - last > NotifyCooldown

\* line 139: now - self._last_notify_time >= self._notify_cooldown
CooldownElapsed(now, last) == now - last >= NotifyCooldown

\* RPi.GPIO calls _gpio_callback on an edge; lines 155-156 read the pin,
\* whose level may or may not differ from the state the module holds
Edge(g, maxev) ==
    /\ pc[g] = "idle"
    /\ nev < maxev
    /\ \E level \in BOOLEAN : pin' = [pin EXCEPT ![g] = level]
    /\ pc' = [pc EXCEPT ![g] = "cb_lock"]
    /\ UNCHANGED <<lifeVars, settings, daemonVars, hc, hres, workerVars, ev, touch, nev, moduleVars,
                   histVars>>

\* The upcall self._emit_event(type, data) hands the event to the callback
\* the daemon wired in, TotemDaemon._on_event, on the calling thread; the
\* event gets its timestamp on entry (line 123).
_emit_event(g, type) ==
    /\ ev' = [ev EXCEPT ![g] = [n |-> nev + 1, module |-> "touch", event |-> type,
                               timestamp |-> clock, now |-> 0]]
    /\ nev' = nev + 1
    /\ sent' = [last |-> type,
                touches |-> IF type = "touched" THEN sent.touches + 1 ELSE sent.touches]
    /\ pc' = [pc EXCEPT ![g] = "on_event"]

\* _gpio_callback without the tests on self._is_touched of lines 159 and
\* 171: every edge emits the event of the level read
_gpio_callback_unguarded(g) ==
    /\ pc[g] = "cb_lock"
    /\ LockFree(touch.lock)
    /\ IF pin[g]
       THEN /\ touch' = [touch EXCEPT !.is_touched = TRUE, !.touch_count = @ + 1,
                                      !.lock = g]
            /\ _emit_event(g, "touched")
       ELSE /\ touch' = [touch EXCEPT !.is_touched = FALSE, !.lock = g]
            /\ _emit_event(g, "released")
    /\ UNCHANGED <<lifeVars, settings, daemonVars, hc, hres, workerVars, pin, moduleVars,
                   emitted, stored, tests, reacted, dispatched, orphans, joined,
                   delivered>>

\* _gpio_callback, lines 158-185: with self._lock, a touch or a release is
\* recorded and emitted; the lock stays held while the upcall runs
_gpio_callback(g) ==
    /\ pc[g] = "cb_lock"
    /\ LockFree(touch.lock)
    /\ IF pin[g] /\ ~touch.is_touched
       THEN /\ touch' = [touch EXCEPT !.is_touched = TRUE, !.touch_count = @ + 1,
                                      !.lock = g]
            /\ _emit_event(g, "touched")
       ELSE IF ~pin[g] /\ touch.is_touched
       THEN /\ touch' = [touch EXCEPT !.is_touched = FALSE, !.lock = g]
            /\ _emit_event(g, "released")
       ELSE /\ pc' = [pc EXCEPT ![g] = "idle"]
            /\ UNCHANGED <<ev, touch, nev, sent>>
    /\ UNCHANGED <<lifeVars, settings, daemonVars, hc, hres, workerVars, pin, moduleVars,
                   emitted, stored, tests, reacted, dispatched, orphans, joined,
                   delivered>>

\* _on_event, line 128: with self._events_lock
OnEventLock(g) ==
    /\ pc[g] = "on_event"
    /\ LockFree(events_lock)
    /\ events_lock' = g
    /\ pc' = [pc EXCEPT ![g] = "store"]
    /\ UNCHANGED <<lifeVars, settings, modules, lock, events, last_notify_time, notify, clock,
                   hc, hres,
                   workerVars, sensorVars, moduleVars, histVars>>

\* _on_event, lines 129-132: append, keep the last 100, leave the lock
OnEventStore(g) ==
    /\ pc[g] = "store"
    /\ events' = Trim(Append(events, Queued(ev[g])))
    /\ emitted' = Append(emitted, ev[g].n)
    /\ stored' = stored \cup {ev[g].n}
    /\ events_lock' = NoThread
    /\ pc' = [pc EXCEPT ![g] = "cooldown"]
    /\ UNCHANGED <<lifeVars, settings, modules, lock, last_notify_time, notify, clock, hc, hres,
                   workerVars, sensorVars, moduleVars, tests, reacted, dispatched,
                   orphans, joined, delivered, sent>>

\* OnEventCooldown with line 140 moved before the test: every touched event
\* restarts the cooldown, the suppressed ones too
OnEventCooldownExtending(g) ==
    /\ pc[g] = "cooldown"
    /\ IF ev[g].event = "touched" /\ CooldownElapsed(clock, last_notify_time)
       THEN /\ ev' = [ev EXCEPT ![g].now = clock]
            /\ pc' = [pc EXCEPT ![g] = "react_lock"]
            /\ UNCHANGED touch
       ELSE /\ touch' = [touch EXCEPT !.lock = NoThread]
            /\ ev' = [ev EXCEPT ![g] = NoEvent]
            /\ pc' = [pc EXCEPT ![g] = "idle"]
    /\ last_notify_time' = IF ev[g].event = "touched" THEN clock ELSE last_notify_time
    /\ tests' = IF ev[g].event = "touched"
                THEN Append(tests, [n |-> ev[g].n, at |-> clock, last |-> last_notify_time])
                ELSE tests
    /\ UNCHANGED <<lifeVars, settings, modules, lock, events, events_lock, notify, clock, hc, hres,
                   workerVars, pin, nev, moduleVars, emitted, stored, reacted,
                   dispatched, orphans, joined, delivered, sent>>

\* OnEventCooldown without the test of line 138: an event of any type whose
\* cooldown has elapsed gets the reaction and the notification
OnEventCooldownAnyType(g) ==
    /\ pc[g] = "cooldown"
    /\ IF CooldownElapsed(clock, last_notify_time)
       THEN /\ last_notify_time' = clock
            /\ ev' = [ev EXCEPT ![g].now = clock]
            /\ pc' = [pc EXCEPT ![g] = "react_lock"]
            /\ UNCHANGED touch
       ELSE /\ touch' = [touch EXCEPT !.lock = NoThread]
            /\ ev' = [ev EXCEPT ![g] = NoEvent]
            /\ pc' = [pc EXCEPT ![g] = "idle"]
            /\ UNCHANGED last_notify_time
    /\ tests' = IF ev[g].event = "touched"
                THEN Append(tests, [n |-> ev[g].n, at |-> clock, last |-> last_notify_time])
                ELSE tests
    /\ UNCHANGED <<lifeVars, settings, modules, lock, events, events_lock, notify, clock, hc, hres,
                   workerVars, pin, nev, moduleVars, emitted, stored, reacted,
                   dispatched, orphans, joined, delivered, sent>>

\* _on_event, lines 137-140 and 157-158: only a "touched" event whose
\* cooldown has elapsed goes on; any other event ends the upcall, and the
\* callback leaves TouchModule's lock
OnEventCooldown(g) ==
    /\ pc[g] = "cooldown"
    /\ IF ev[g].event = "touched" /\ CooldownElapsed(clock, last_notify_time)
       THEN /\ last_notify_time' = clock
            /\ ev' = [ev EXCEPT ![g].now = clock]
            /\ pc' = [pc EXCEPT ![g] = "react_lock"]
            /\ UNCHANGED touch
       ELSE /\ touch' = [touch EXCEPT !.lock = NoThread]
            /\ ev' = [ev EXCEPT ![g] = NoEvent]
            /\ pc' = [pc EXCEPT ![g] = "idle"]
            /\ UNCHANGED last_notify_time
    /\ tests' = IF ev[g].event = "touched"
                THEN Append(tests, [n |-> ev[g].n, at |-> clock, last |-> last_notify_time])
                ELSE tests
    /\ UNCHANGED <<lifeVars, settings, modules, lock, events, events_lock, notify, clock, hc, hres,
                   workerVars, pin, nev, moduleVars, emitted, stored, reacted,
                   dispatched, orphans, joined, delivered, sent>>

\* React without the with self._lock of line 143: the reaction calls
\* handle_command whoever holds the lock.
ReactUnlocked(g) ==
    /\ pc[g] = "react_lock"
    /\ reacted' = reacted \cup {ev[g].n}
    /\ IF "face" \in modules
       THEN /\ hc' = [hc EXCEPT ![g] = Call("face", "expression", Named("surprised"))]
            /\ pc' = [pc EXCEPT ![g] = "react_face_call"]
       ELSE /\ pc' = [pc EXCEPT ![g] = "react_lcd"]
            /\ UNCHANGED hc
    /\ UNCHANGED <<lifeVars, settings, modules, lock, events, events_lock, last_notify_time,
                   notify, clock,
                   hres, workerVars, sensorVars, moduleVars, emitted, stored, tests,
                   dispatched, orphans, joined, delivered, sent>>

\* React with the test of line 150 put around the whole reaction: without
\* a notifier the accepted event gets no reaction either
ReactIfNotify(g) ==
    /\ pc[g] = "react_lock"
    /\ IF notify
       THEN /\ LockFree(lock)
            /\ lock' = g
            /\ reacted' = reacted \cup {ev[g].n}
            /\ IF "face" \in modules
               THEN /\ hc' = [hc EXCEPT ![g] = Call("face", "expression", Named("surprised"))]
                    /\ pc' = [pc EXCEPT ![g] = "react_face_call"]
               ELSE /\ pc' = [pc EXCEPT ![g] = "react_lcd"]
                    /\ UNCHANGED hc
            /\ UNCHANGED <<ev, touch>>
       ELSE /\ touch' = [touch EXCEPT !.lock = NoThread]
            /\ ev' = [ev EXCEPT ![g] = NoEvent]
            /\ pc' = [pc EXCEPT ![g] = "idle"]
            /\ UNCHANGED <<lock, reacted, hc>>
    /\ UNCHANGED <<lifeVars, settings, modules, events, events_lock, last_notify_time, notify,
                   clock, hres, workerVars, pin, nev, moduleVars, emitted, stored,
                   tests, dispatched, orphans, joined, delivered, sent>>

\* _on_event, lines 143-145: with self._lock, the face step of the reaction
React(g) ==
    /\ pc[g] = "react_lock"
    /\ LockFree(lock)
    /\ lock' = g
    /\ reacted' = reacted \cup {ev[g].n}
    /\ IF "face" \in modules
       THEN /\ hc' = [hc EXCEPT ![g] = Call("face", "expression", Named("surprised"))]
            /\ pc' = [pc EXCEPT ![g] = "react_face_call"]
       ELSE /\ pc' = [pc EXCEPT ![g] = "react_lcd"]
            /\ UNCHANGED hc
    /\ UNCHANGED <<lifeVars, settings, modules, events, events_lock, last_notify_time, notify,
                   clock,
                   hres, workerVars, sensorVars, moduleVars, emitted, stored, tests,
                   dispatched, orphans, joined, delivered, sent>>

\* ReactFaceReturn with the reaction's two steps in a with block each, as
\* _handle_compound has them: the lock is freed after the face step
ReactFaceReturnFreeing(g) ==
    /\ pc[g] = "react_face_call"
    /\ hc[g].at = "ret"
    /\ hc' = [hc EXCEPT ![g] = NoCall]
    /\ lock' = NoThread
    /\ pc' = [pc EXCEPT ![g] = "react_lcd"]
    /\ UNCHANGED <<lifeVars, settings, modules, events, events_lock, last_notify_time, notify,
                   clock,
                   hres, workerVars, sensorVars, moduleVars, histVars>>

\* line 145: the face step has returned
ReactFaceReturn(g) ==
    /\ pc[g] = "react_face_call"
    /\ hc[g].at = "ret"
    /\ hc' = [hc EXCEPT ![g] = NoCall]
    /\ pc' = [pc EXCEPT ![g] = "react_lcd"]
    /\ UNCHANGED <<lifeVars, settings, daemonVars, hres, workerVars, sensorVars, moduleVars,
                   histVars>>

\* lines 146-147: the lcd step of the reaction; without an lcd the with
\* block ends here and the lock is freed
ReactLcd(g) ==
    /\ pc[g] = "react_lcd"
    /\ IF "lcd" \in modules
       THEN /\ hc' = [hc EXCEPT ![g] = Call("lcd", "write", Text("I felt that!"))]
            /\ pc' = [pc EXCEPT ![g] = "react_lcd_call"]
            /\ UNCHANGED lock
       ELSE /\ lock' = NoThread
            /\ pc' = [pc EXCEPT ![g] = "dispatch"]
            /\ UNCHANGED hc
    /\ UNCHANGED <<lifeVars, settings, modules, events, events_lock, last_notify_time, notify,
                   clock,
                   hres, workerVars, sensorVars, moduleVars, histVars>>

\* line 147: the lcd step has returned; the with block ends, the lock is freed
ReactLcdReturn(g) ==
    /\ pc[g] = "react_lcd_call"
    /\ hc[g].at = "ret"
    /\ hc' = [hc EXCEPT ![g] = NoCall]
    /\ lock' = NoThread
    /\ pc' = [pc EXCEPT ![g] = "dispatch"]
    /\ UNCHANGED <<lifeVars, settings, modules, events, events_lock, last_notify_time, notify,
                   clock,
                   hres, workerVars, sensorVars, moduleVars, histVars>>

\* lines 150-156: the notification thread is started when notifications are
\* enabled and the openclaw binary was found; _on_event returns and the
\* callback leaves TouchModule's lock
Dispatch(g) ==
    /\ pc[g] = "dispatch"
    /\ dispatched' = IF notify
                     THEN Append(dispatched, [n |-> ev[g].n, timestamp |-> ev[g].timestamp,
                                              at |-> ev[g].now])
                     ELSE dispatched
    /\ touch' = [touch EXCEPT !.lock = NoThread]
    /\ ev' = [ev EXCEPT ![g] = NoEvent]
    /\ pc' = [pc EXCEPT ![g] = "idle"]
    /\ UNCHANGED <<lifeVars, settings, daemonVars, hc, hres, workerVars, pin, nev, moduleVars,
                   emitted,
                   stored, tests, reacted, orphans, joined, delivered, sent>>

\* time.time() moves on
Tick ==
    /\ clock < MaxTime
    /\ clock' = clock + 1
    /\ UNCHANGED <<lifeVars, settings, modules, lock, events, events_lock, last_notify_time, notify,
                   threadVars, workerVars, sensorVars, moduleVars, histVars>>

\* ---------------------------------------------------------- specifications
\* the steps of a connection worker in the router
Router(w) ==
    \/ handle_message(w)
    \/ _handle_batch(w)
    \/ BatchAppend(w)
    \/ Respond(w)
    \/ Close(w)
    \/ Raise(w)
    \/ ModuleCall(w)
    \/ ModuleReturn(w)
    \/ ExpressFace(w)
    \/ ExpressFaceReturn(w)
    \/ ExpressLcd(w)
    \/ ExpressLcdReturn(w)
    \/ GetEventsLock(w)
    \/ _get_events(w)

\* the steps of a thread inside handle_command when no effect is running
Command(t) ==
    \/ FaceBegin(t)
    \/ FaceFinish(t)
    \/ LcdBegin(t)
    \/ LcdFinish(t)
    \/ TouchBegin(t)
    \/ TouchReset(t)

\* the steps of the GPIO callback thread
Sensor(g) ==
    \/ _gpio_callback(g)
    \/ OnEventLock(g)
    \/ OnEventStore(g)
    \/ OnEventCooldown(g)
    \/ React(g)
    \/ ReactFaceReturn(g)
    \/ ReactLcd(g)
    \/ ReactLcdReturn(g)
    \/ Dispatch(g)

FaceHappy == Obj("face", "expression", Named("happy"))
LcdHi == Obj("lcd", "write", Text("hi"))
TouchResetCmd == Obj("touch", "reset", NoParams)
ExpressHappy == Obj("totem", "express", [NoParams EXCEPT !.name = "happy", !.text = "hi"])
EventsRead(peek) == Obj("", "events", Peek(peek))
Ping == Obj("", "ping", NoParams)
Bogus == Obj("bogus", "x", NoParams)

\* Spec: two connection workers and the GPIO callback thread; the clock stands still
Requests ==
    {FaceHappy, LcdHi, TouchResetCmd, ExpressHappy, EventsRead(FALSE), Bogus,
     NonObject("number"), Batch(<<FaceHappy, LcdHi>>)}

Init == InitWith({ModuleNames}, {TRUE})

Next ==
    \/ \E w \in Workers :
        \/ Accept(w, Requests, MaxRequests) /\ UNCHANGED <<lifeVars, settings>>
        \/ Router(w)
    \/ \E t \in Threads : Command(t)
    \/ \E g \in Sensors : Edge(g, MaxEvents) \/ Sensor(g)

Spec == Init /\ [][Next]_vars

\* SpecEvents: the GPIO callback thread, the clock and one connection that
\* reads the event queue or drives the face while events arrive
EventRequests == {FaceHappy, EventsRead(FALSE)}

InitEvents == InitWith(Registries, BOOLEAN)

NextEvents ==
    \/ \E w \in {"w1"} :
        \/ Accept(w, EventRequests, 1) /\ UNCHANGED <<lifeVars, settings>>
        \/ handle_message(w)
        \/ Respond(w)
        \/ Close(w)
        \/ ModuleCall(w)
        \/ ModuleReturn(w)
        \/ GetEventsLock(w)
        \/ _get_events(w)
    \/ \E t \in {"w1"} \cup Sensors :
        \/ FaceBegin(t)
        \/ FaceFinish(t)
        \/ LcdBegin(t)
        \/ LcdFinish(t)
    \/ \E g \in Sensors : Edge(g, MaxEvents) \/ Sensor(g)
    \/ Tick

SpecEvents == InitEvents /\ [][NextEvents]_vars

\* SpecQueue: the sensor emits more events than the queue holds while one
\* connection reads the queue; the clock stands still
QueueRequests == {EventsRead(FALSE), EventsRead(TRUE)}

NextQueue ==
    \/ \E w \in {"w1"} :
        \/ Accept(w, QueueRequests, 1) /\ UNCHANGED <<lifeVars, settings>>
        \/ handle_message(w)
        \/ Respond(w)
        \/ Close(w)
        \/ GetEventsLock(w)
        \/ _get_events(w)
    \/ \E t \in Sensors :
        \/ FaceBegin(t)
        \/ FaceFinish(t)
        \/ LcdBegin(t)
        \/ LcdFinish(t)
    \/ \E g \in Sensors : Edge(g, MaxQueueEvents) \/ Sensor(g)

SpecQueue == Init /\ [][NextQueue]_vars

\* SpecRouter: one connection worker routes every shape of request, batches
\* and nested batches among them
SeqsUpTo(S, n) == UNION {[1..k -> S] : k \in 0..n}

Leaves ==
    {Ping, Obj("", "status", NoParams), Obj("", "nosuch", NoParams), EventsRead(FALSE),
     FaceHappy, Obj("face", "expression", Named("nosuch")), LcdHi,
     Obj("lcd", "nosuch", NoParams), Obj("touch", "read", NoParams), TouchResetCmd,
     ExpressHappy, Obj("totem", "express", Named("nosuch")),
     Obj("totem", "express", [NoParams EXCEPT !.name = "nosuch", !.text = "hi"]),
     Obj("totem", "nosuch", NoParams), Bogus, NonObject("number"), NonObject("string")}

BatchEntries ==
    {Ping, EventsRead(TRUE), FaceHappy, Obj("face", "expression", Named("nosuch")),
     LcdHi, ExpressHappy, Bogus, NonObject("number"),
     Batch(<<>>), Batch(<<Ping, Bogus>>), Batch(<<FaceHappy>>)}

RouterRequests == Leaves \cup {Batch(s) : s \in SeqsUpTo(BatchEntries, MaxBatch)}

InitRouter == InitWith(Registries, {TRUE})

NextRouter ==
    \/ \E w \in {"w1"} :
        \/ Accept(w, RouterRequests, MaxRequests) /\ UNCHANGED <<lifeVars, settings>>
        \/ Router(w)
    \/ \E t \in {"w1"} : Command(t)

SpecRouter == InitRouter /\ [][NextRouter]_vars

\* SpecFx: one connection after the other starts and stops background
\* effects on the face and the lcd while the effect workers run
FxRequests ==
    {Obj("face", "animate", Animation("thinking", 0)),
     Obj("face", "animate", Animation("thinking", 1)),
     Obj("face", "sequence", Frames(1, FALSE)),
     Obj("face", "sequence", Frames(1, TRUE)),
     FaceHappy,
     Obj("face", "stop", NoParams),
     Obj("lcd", "scroll", Text("")),
     LcdHi,
     Obj("lcd", "stop_scroll", NoParams)}

NextFx ==
    \/ \E w \in {"w1"} :
        \/ Accept(w, FxRequests, MaxFxRequests) /\ UNCHANGED <<lifeVars, settings>>
        \/ handle_message(w)
        \/ Respond(w)
        \/ Close(w)
        \/ ModuleCall(w)
        \/ ModuleReturn(w)
    \/ \E t \in {"w1"} :
        \/ FaceBegin(t)
        \/ FaceJoin(t)
        \/ FaceJoinTimeout(t)
        \/ FaceFinish(t)
        \/ LcdBegin(t)
        \/ LcdJoin(t)
        \/ LcdJoinTimeout(t)
        \/ LcdFinish(t)
    \/ \E k \in 1..Len(fx) :
        \/ FxWhile(k)
        \/ FxFor(k)
        \/ FxWrite(k)
        \/ FxEnd(k)

\* the face and the lcd do not share state: a behaviour drives one of them
InitFx == InitWith({{"face", "touch"}, {"lcd", "touch"}}, {TRUE})

SpecFx == InitFx /\ [][NextFx]_vars


\* SpecDraw: one connection after the other starts an effect or draws on the
\* device while the effect workers run
DrawRequests ==
    {Obj("face", "animate", Animation("thinking", 0)),
     Obj("face", "pixel", NoParams),
     Obj("face", "nosuch", NoParams),
     Obj("lcd", "scroll", Text("")),
     Obj("lcd", "write_at", Text("hi")),
     Obj("lcd", "nosuch", NoParams),
     Obj("touch", "nosuch", NoParams)}

NextDraw ==
    \/ \E w \in {"w1"} :
        \/ Accept(w, DrawRequests, MaxDrawRequests) /\ UNCHANGED <<lifeVars, settings>>
        \/ handle_message(w)
        \/ Respond(w)
        \/ Close(w)
        \/ ModuleCall(w)
        \/ ModuleReturn(w)
    \/ \E t \in {"w1"} :
        \/ FaceBegin(t)
        \/ FaceJoin(t)
        \/ FaceJoinTimeout(t)
        \/ FaceFinish(t)
        \/ FaceDraw(t)
        \/ LcdBegin(t)
        \/ LcdJoin(t)
        \/ LcdJoinTimeout(t)
        \/ LcdFinish(t)
        \/ LcdDraw(t)
        \/ TouchBegin(t)
        \/ CommandFault(t)
    \/ \E k \in 1..Len(fx) :
        \/ FxWhile(k)
        \/ FxFor(k)
        \/ FxWrite(k)

SpecDraw == InitFx /\ [][NextDraw]_vars

\* SpecClient: two connections at a time, each read chunk by chunk until the
\* bytes parse or the client closes its sending side
ClientRequests ==
    {Ping, FaceHappy, Bogus, NonObject("number"), NonObject("string"),
     Batch(<<Ping, FaceHappy>>), Batch(<<FaceHappy, NonObject("number"), Ping>>),
     BatchOf("number", 0), BatchOf("string", 0), BatchOf("string", 1),
     BatchOf("object", 0), BatchOf("object", 1)}

\* the steps of _handle_client once the bytes are read, with the router
\* calls under it
Client(w) ==
    \/ handle_message(w)
    \/ _handle_batch(w)
    \/ BatchAppend(w)
    \/ Respond(w)
    \/ Raise(w)
    \/ Close(w)
    \/ ModuleCall(w)
    \/ ModuleReturn(w)
    \/ FaceBegin(w)
    \/ FaceFinish(w)

NextClient ==
    \/ \E w \in Workers :
        \/ Connect(w, MaxConnections)
        \/ RecvPartial(w)
        \/ RecvSplit(w)
        \/ RecvComplete(w, ClientRequests)
        \/ RecvEOF(w)
    \/ \E w \in Workers : Client(w)

SpecClient == Init /\ [][NextClient]_vars

\* every connection worker is a thread the operating system schedules; the
\* bytes it waits for in recv are the client's to send
SpecClientFair == SpecClient /\ \A w \in Workers : WF_vars(Client(w))

\* SpecSystem: one connection asks system actions that only read, while
\* another drives the face or the lcd and the sensor emits events
SystemReads ==
    {Ping, Obj("", "status", NoParams), Obj("", "capabilities", NoParams),
     EventsRead(TRUE)}

NextSystem ==
    \/ \E w \in {"w1"} :
        \/ Accept(w, SystemReads, MaxSystemRequests) /\ UNCHANGED <<lifeVars, settings>>
        \/ GetEventsLock(w)
        \/ _get_events(w)
    \/ \E w \in {"w2"} :
        \/ Accept(w, {FaceHappy, LcdHi}, MaxSystemRequests) /\ UNCHANGED <<lifeVars, settings>>
        \/ ModuleCall(w)
        \/ ModuleReturn(w)
    \/ \E w \in Workers :
        \/ handle_message(w)
        \/ Respond(w)
        \/ Close(w)
    \/ \E t \in {"w2"} \cup Sensors :
        \/ FaceBegin(t)
        \/ FaceFinish(t)
        \/ LcdBegin(t)
        \/ LcdFinish(t)
    \/ \E g \in Sensors : Edge(g, MaxSystemEvents) \/ Sensor(g)

SpecSystem == Init /\ [][NextSystem]_vars

\* SpecRoute: one connection after the other sends envelopes of every shape,
\* a batch that also names a module and an action among them, to a daemon
\* whose registry may hold a module that is itself named totem
Keyed(b, module, action) == [b EXCEPT !.module = module, !.action = action]

RouteRequests ==
    {Ping, Obj("", "status", NoParams), Obj("", "nosuch", NoParams),
     Obj("", "express", NoParams), EventsRead(FALSE),
     FaceHappy, LcdHi, Bogus, Obj("face", "ping", NoParams),
     Obj("touch", "read", NoParams), TouchResetCmd,
     ExpressHappy, Obj("totem", "nosuch", NoParams), Obj("totem", "ping", NoParams),
     Batch(<<Ping>>), Keyed(Batch(<<Ping>>), "face", "expression"),
     Keyed(Batch(<<FaceHappy>>), "totem", "express"),
     Keyed(Batch(<<>>), "", "ping"), Keyed(Batch(<<Bogus>>), "bogus", "x"),
     Keyed(BatchOf("number", 0), "face", "expression")}

InitRoute == InitWith({ModuleNames, ModuleNames \cup {"totem"}, {"touch", "totem"}}, {TRUE})

NextRoute ==
    \/ \E w \in {"w1"} :
        \/ Accept(w, RouteRequests, MaxRouteRequests) /\ UNCHANGED <<lifeVars, settings>>
        \/ Router(w)
    \/ \E t \in {"w1"} : Command(t)

SpecRoute == InitRoute /\ [][NextRoute]_vars

\* SpecStop: one connection after the other starts and stops effects while
\* the effect workers run
StopRequests ==
    {Obj("face", "animate", Animation("thinking", 0)),
     Obj("face", "animate", Animation("idle_blink", 1)),
     Obj("face", "sequence", Frames(1, FALSE)),
     Obj("face", "sequence", Frames(1, TRUE)),
     Obj("face", "stop", NoParams),
     Obj("lcd", "scroll", Text("")),
     Obj("lcd", "stop_scroll", NoParams)}

\* the steps of the thread of effect worker k
FxThread(k) ==
    \/ FxWhile(k)
    \/ FxFor(k)
    \/ FxWrite(k)
    \/ FxEnd(k)

NextStop ==
    \/ \E w \in {"w1"} :
        \/ Accept(w, StopRequests, MaxStopRequests) /\ UNCHANGED <<lifeVars, settings>>
        \/ handle_message(w)
        \/ Respond(w)
        \/ Close(w)
        \/ ModuleCall(w)
        \/ ModuleReturn(w)
        \/ FaceBegin(w)
        \/ FaceJoin(w)
        \/ FaceJoinTimeout(w)
        \/ FaceFinish(w)
        \/ LcdBegin(w)
        \/ LcdJoin(w)
        \/ LcdJoinTimeout(w)
        \/ LcdFinish(w)
    \/ \E k \in 1..Len(fx) :
        \/ FxWhile(k)
        \/ FxFor(k)
        \/ FxWrite(k)
        \/ FxEnd(k)

SpecStop == InitFx /\ [][NextStop]_vars

\* each effect worker is a thread the operating system schedules, and its
\* timed waits end
SpecStopFair == SpecStop /\ \A k \in 1..MaxStopRequests : WF_vars(FxThread(k))

\* SpecTouch: one connection at a time sends read, config and reset to the
\* touch module while the sensor calls back; the clock stands still
TouchRequests ==
    {Obj("touch", "read", NoParams), Obj("touch", "config", NoParams),
     TouchResetCmd}

\* the steps of a connection worker whose command goes to the touch module
TouchClient(w) ==
    \/ handle_message(w)
    \/ ModuleCall(w)
    \/ TouchBegin(w)
    \/ TouchReset(w)
    \/ ModuleReturn(w)
    \/ Respond(w)
    \/ Close(w)

\* the steps of the GPIO callback thread, the reaction's commands included
TouchSensor(g) ==
    \/ Sensor(g)
    \/ FaceBegin(g)
    \/ FaceFinish(g)
    \/ LcdBegin(g)
    \/ LcdFinish(g)

NextTouch ==
    \/ \E w \in {"w1"} :
        \/ Accept(w, TouchRequests, MaxTouchRequests) /\ UNCHANGED <<lifeVars, settings>>
        \/ TouchClient(w)
    \/ \E g \in Sensors : Edge(g, MaxTouchEvents) \/ TouchSensor(g)

SpecTouch == Init /\ [][NextTouch]_vars

\* every thread is scheduled by the operating system: a step that stays
\* possible is taken
SpecTouchFair ==
    /\ SpecTouch
    /\ WF_vars(TouchClient("w1"))
    /\ \A g \in Sensors : WF_vars(TouchSensor(g))

\* SpecReads: two connections at a time read the event queue, peeking or
\* not, while the sensor emits more events than the queue holds.  The
\* behaviours start where the daemon is after the sensor
\* has emitted Backlog events, touched and released in turn, that nobody has
\* read: the first touch got the reaction, the others fell in the cooldown,
\* which has elapsed since; from there the clock stands still.
Piled(k) == [i \in 1..k |-> [n |-> i, module |-> "touch",
                             event |-> IF i % 2 = 1 THEN "touched" ELSE "released",
                             timestamp |-> NotifyCooldown]]

InitReads ==
    /\ modules = ModuleNames
    /\ Serving
    /\ lock = NoThread
    /\ events = Trim(Piled(Backlog))
    /\ events_lock = NoThread
    /\ last_notify_time = NotifyCooldown
    /\ notify = TRUE
    /\ clock = 2 * NotifyCooldown
    /\ pc = [t \in Threads |-> "idle"]
    /\ hc = [t \in Threads |-> NoCall]
    /\ hres = [t \in Threads |-> IF t \in Sensors THEN _ok("write") ELSE NoResp]
    /\ req = [w \in Workers |-> NonObject("none")]
    /\ cur = [w \in Workers |-> NonObject("none")]
    /\ stack = [w \in Workers |-> <<>>]
    /\ ret = [w \in Workers |-> NoResp]
    /\ results = [w \in Workers |-> <<>>]
    /\ response = [w \in Workers |-> NoResp]
    /\ served = 0
    /\ pin = [g \in Sensors |-> Backlog % 2 = 1]
    /\ ev = [g \in Sensors |-> NoEvent]
    /\ touch = [is_touched |-> Backlog % 2 = 1, touch_count |-> (Backlog + 1) \div 2,
                lock |-> NoThread]
    /\ nev = Backlog
    /\ face = [expr |-> "surprised", anim |-> "none", thread |-> 0, stop |-> FALSE]
    /\ lcd = [line1 |-> "I felt that!", line2 |-> "", thread |-> 0, stop |-> FALSE]
    /\ fx = <<>>
    /\ hw = [m \in {"face", "lcd"} |-> NoWrites]
    /\ settings = Defaults
    /\ emitted = [i \in 1..Backlog |-> i]
    /\ stored = 1..Backlog
    /\ tests = [i \in 1..((Backlog + 1) \div 2) |->
                  [n |-> 2 * i - 1, at |-> NotifyCooldown,
                   last |-> IF i = 1 THEN 0 ELSE NotifyCooldown]]
    /\ reacted = {1}
    /\ dispatched = <<[n |-> 1, timestamp |-> NotifyCooldown, at |-> NotifyCooldown]>>
    /\ orphans = {}
    /\ joined = {}
    /\ delivered = {}
    /\ sent = [last |-> IF Backlog % 2 = 1 THEN "touched" ELSE "released",
               touches |-> (Backlog + 1) \div 2]

NextReads ==
    \/ \E w \in Workers :
        \/ Accept(w, QueueRequests, MaxReads) /\ UNCHANGED <<lifeVars, settings>>
        \/ handle_message(w)
        \/ Respond(w)
        \/ Close(w)
        \/ GetEventsLock(w)
        \/ _get_events(w)
    \/ \E t \in Sensors :
        \/ FaceBegin(t)
        \/ FaceFinish(t)
        \/ LcdBegin(t)
        \/ LcdFinish(t)
    \/ \E g \in Sensors : Edge(g, MaxReadEvents) \/ Sensor(g)

SpecReads == InitReads /\ [][NextReads]_vars

\* ------------------------------------------------- start() and _shutdown()
\* The main thread: start() initialises the discovered modules, listens,
\* runs the accept loop until a signal clears self._running, and then
\* _shutdown() releases the modules, the socket and the two files.
Range(s) == {s[i] : i \in 1..Len(s)}

\* discover_modules (lines 64-89): self._modules is a dict, so the modules
\* are kept without repetition in the order os.listdir gave their files in
Orders == {s \in SeqsUpTo(ModuleNames, Cardinality(ModuleNames)) :
              \A i, j \in 1..Len(s) : i # j => s[i] # s[j]}

\* module.set_event_callback(self._on_event), line 97.  HardwareModule
\* (base.py, lines 14-118) defines no such method, so the call raises
\* AttributeError inside the try of line 94; base_upcall = TRUE is a base
\* class that has the method.
set_event_callback(m) == base_upcall

\* init_modules with del self._modules[name] of line 101 left out: a module
\* that failed stays registered
InitModuleKeeping ==
    /\ main = "init"
    /\ Len(initlog) < Len(order)
    /\ LET m == order[Len(initlog) + 1]
       IN  \E ok \in BOOLEAN :
               /\ initlog' = Append(initlog, m)
               /\ init_failed' = IF ok THEN init_failed ELSE init_failed \cup {m}
               /\ wired' = IF ok /\ set_event_callback(m) THEN wired \cup {m} ELSE wired
    /\ UNCHANGED <<daemonVars, threadVars, workerVars, sensorVars, moduleVars,
                   histVars, main, running, order, base_upcall, settings, second, server, sockfile,
                   pidfile, cleanlog, clean_failed, late>>

\* init_modules, lines 93-101: one turn of the loop over the snapshot
\* list(self._modules.items()).  init() returns or raises; after a returned
\* init() the upcall is wired; an exception of either call evicts the module.
InitModule ==
    /\ main = "init"
    /\ Len(initlog) < Len(order)
    /\ LET m == order[Len(initlog) + 1]
       IN  \E ok \in BOOLEAN :
               /\ initlog' = Append(initlog, m)
               /\ init_failed' = IF ok THEN init_failed ELSE init_failed \cup {m}
               /\ IF ok /\ set_event_callback(m)
                  THEN wired' = wired \cup {m} /\ modules' = modules
                  ELSE wired' = wired /\ modules' = modules \ {m}
    /\ UNCHANGED <<lock, events, events_lock, last_notify_time, notify, clock,
                   threadVars, workerVars, sensorVars, moduleVars, histVars,
                   main, running, order, base_upcall, settings, second, server, sockfile, pidfile,
                   cleanlog, clean_failed, late>>

\* start(), lines 337-346: after init_modules the socket is bound and
\* listening, self._running is set and the signal handlers are installed.
\* bind() creates SOCKET_PATH, so it returns only while no such file exists.
Listen ==
    /\ main = "init"
    /\ Len(initlog) = Len(order)
    /\ sockfile = "none"
    /\ server' = "listening"
    /\ sockfile' = "first"
    /\ running' = TRUE
    /\ main' = "loop"
    /\ UNCHANGED <<daemonVars, threadVars, workerVars, sensorVars, moduleVars,
                   histVars, order, base_upcall, settings, second, pidfile, initlog, init_failed,
                   wired, cleanlog, clean_failed, late>>

\* the loop test without the flag: while True
LoopForever ==
    /\ main = "loop"
    /\ main' = "accept"
    /\ UNCHANGED <<daemonVars, threadVars, workerVars, sensorVars, moduleVars,
                   histVars, running, order, base_upcall, settings, second, server, sockfile,
                   pidfile, initlog, init_failed, wired, cleanlog, clean_failed,
                   late>>

\* while self._running   (line 358)
LoopTest ==
    /\ main = "loop"
    /\ main' = IF running THEN "accept" ELSE "cleanup"
    /\ UNCHANGED <<daemonVars, threadVars, workerVars, sensorVars, moduleVars,
                   histVars, running, order, base_upcall, settings, second, server, sockfile,
                   pidfile, initlog, init_failed, wired, cleanlog, clean_failed,
                   late>>

\* accept() ends with socket.timeout after the second set in line 341:
\* continue   (lines 363-364)
AcceptTimeout ==
    /\ main = "accept"
    /\ main' = "loop"
    /\ UNCHANGED <<daemonVars, threadVars, workerVars, sensorVars, moduleVars,
                   histVars, running, order, base_upcall, settings, second, server, sockfile,
                   pidfile, initlog, init_failed, wired, cleanlog, clean_failed,
                   late>>

\* accept() returns a connection and a daemon thread is started on
\* _handle_client   (lines 360-362)
AcceptConn(w, R, max) ==
    /\ main = "accept"
    /\ Accept(w, R, max)
    /\ main' = "loop"
    /\ late' = IF running THEN late ELSE late + 1
    /\ UNCHANGED <<running, order, base_upcall, settings, second, server, sockfile, pidfile,
                   initlog, init_failed, wired, cleanlog, clean_failed>>

\* _handle_signal, lines 401-404: SIGTERM or SIGINT; the handler runs on the
\* main thread, between two of its steps or inside the waiting accept()
\* (which then goes on waiting)
_handle_signal ==
    /\ main \in {"loop", "accept"}
    /\ running = TRUE
    /\ running' = FALSE
    /\ UNCHANGED <<daemonVars, threadVars, workerVars, sensorVars, moduleVars,
                   histVars, main, order, base_upcall, settings, second, server, sockfile, pidfile,
                   initlog, init_failed, wired, cleanlog, clean_failed, late>>

\* the registered modules cleanup_modules has not come to yet, in the order
\* self._modules.items() yields them
Uncleaned == SelectSeq(order, LAMBDA m : m \in modules /\ m \notin Range(cleanlog))

\* FaceModule.cleanup (face.py, lines 56-61) and LCDModule.cleanup (lcd.py,
\* lines 62-67) stop the effect worker before they blank the device
Released(d) ==
    [d EXCEPT !.stop = IF Alive(d.thread) THEN TRUE ELSE @, !.thread = 0]

\* cleanup_modules stopping at the first cleanup() that raises: the except
\* clause of lines 109-110 left out
CleanupModuleAborting ==
    /\ main = "cleanup"
    /\ Uncleaned # <<>>
    /\ LET m == Head(Uncleaned)
       IN  /\ cleanlog' = Append(cleanlog, m)
           /\ face' = IF m = "face" THEN Released(face) ELSE face
           /\ lcd' = IF m = "lcd" THEN Released(lcd) ELSE lcd
           /\ \E ok \in BOOLEAN :
                  /\ clean_failed' = IF ok THEN clean_failed ELSE clean_failed \cup {m}
                  /\ main' = IF ok THEN main ELSE "stopped"
    /\ UNCHANGED <<daemonVars, threadVars, workerVars, sensorVars, fx, hw,
                   histVars, running, order, base_upcall, settings, second, server, sockfile,
                   pidfile, initlog, init_failed, wired, late>>

\* cleanup_modules, lines 105-110: one turn of the loop; cleanup() returns
\* or raises, and the exception is caught and logged
CleanupModule ==
    /\ main = "cleanup"
    /\ Uncleaned # <<>>
    /\ LET m == Head(Uncleaned)
       IN  /\ cleanlog' = Append(cleanlog, m)
           /\ face' = IF m = "face" THEN Released(face) ELSE face
           /\ lcd' = IF m = "lcd" THEN Released(lcd) ELSE lcd
           /\ \E ok \in BOOLEAN :
                  clean_failed' = IF ok THEN clean_failed ELSE clean_failed \cup {m}
    /\ UNCHANGED <<daemonVars, threadVars, workerVars, sensorVars, fx, hw,
                   histVars, main, running, order, base_upcall, settings, second, server, sockfile,
                   pidfile, initlog, init_failed, wired, late>>

\* _shutdown, lines 413-418: after cleanup_modules the socket is closed
CloseServer ==
    /\ main = "cleanup"
    /\ Uncleaned = <<>>
    /\ server' = "closed"
    /\ main' = "unlink"
    /\ UNCHANGED <<daemonVars, threadVars, workerVars, sensorVars, moduleVars,
                   histVars, running, order, base_upcall, settings, second, sockfile, pidfile,
                   initlog, init_failed, wired, cleanlog, clean_failed, late>>

\* _shutdown, lines 420-427: SOCKET_PATH and PID_FILE are unlinked and
\* start() returns; the process ends and its daemon threads with it
RemoveFiles ==
    /\ main = "unlink"
    /\ sockfile' = "none"
    /\ pidfile' = "none"
    /\ main' = "stopped"
    /\ UNCHANGED <<daemonVars, threadVars, workerVars, sensorVars, moduleVars,
                   histVars, running, order, base_upcall, settings, second, server, initlog,
                   init_failed, wired, cleanlog, clean_failed, late>>

\* start(), line 339, while SOCKET_PATH exists: bind() raises OSError
\* (address already in use), which nothing in start() catches; the process
\* ends without _shutdown() and both files stay as they are
ListenFails ==
    /\ main = "init"
    /\ Len(initlog) = Len(order)
    /\ sockfile # "none"
    /\ main' = "crashed"
    /\ UNCHANGED <<daemonVars, threadVars, workerVars, sensorVars, moduleVars,
                   histVars, running, order, base_upcall, settings, second, server,
                   sockfile, pidfile, initlog, init_failed, wired, cleanlog,
                   clean_failed, late>>

\* what a step outside this daemon's threads leaves alone
HostFrame ==
    UNCHANGED <<daemonVars, threadVars, workerVars, sensorVars, moduleVars,
                histVars, order, base_upcall, settings, server, initlog, init_failed,
                wired, cleanlog, clean_failed, late>>

\* A second process runs totem_daemon.py (the __main__ block, lines 475-482,
\* starts a daemon without asking whether one is running).
\* start(), lines 318-320: an existing SOCKET_PATH is unlinked
SecondUnlink ==
    /\ second = "absent"
    /\ sockfile' = "none"
    /\ second' = "start"
    /\ UNCHANGED <<main, running, pidfile>>
    /\ HostFrame

\* start(), lines 322-324: PID_FILE is opened for writing and the process
\* writes its own id
SecondWritePid ==
    /\ second = "start"
    /\ pidfile' = "second"
    /\ second' = "init"
    /\ UNCHANGED <<main, running, sockfile>>
    /\ HostFrame

\* start(), lines 337-346, in the second process: bind() creates
\* SOCKET_PATH, or raises when the file exists and ends the process
SecondListen ==
    /\ second = "init"
    /\ IF sockfile = "none"
       THEN sockfile' = "second" /\ second' = "serving"
       ELSE sockfile' = sockfile /\ second' = "stopped"
    /\ UNCHANGED <<main, running, pidfile>>
    /\ HostFrame

\* _handle_signal in the second process (Ctrl+C on its terminal)
SecondSignal ==
    /\ second = "serving"
    /\ second' = "shutdown"
    /\ UNCHANGED <<main, running, sockfile, pidfile>>
    /\ HostFrame

\* _shutdown in the second process, lines 420-427: SOCKET_PATH and PID_FILE
\* are unlinked, whatever they name
SecondShutdown ==
    /\ second = "shutdown"
    /\ sockfile' = "none"
    /\ pidfile' = "none"
    /\ second' = "stopped"
    /\ UNCHANGED <<main, running>>
    /\ HostFrame

\* stop_daemon, lines 460-472: SIGTERM goes to the process PID_FILE names.
\* A process in its accept loop runs _handle_signal; one that has not yet
\* installed the handlers (line 345) is ended by the signal; a process in
\* _shutdown or one that has ended is not changed by it.
stop_daemon ==
    /\ \/ /\ pidfile = "first" /\ main \in {"loop", "accept"}
          /\ running' = FALSE
          /\ UNCHANGED <<main, second>>
       \/ /\ pidfile = "first" /\ main = "init"
          /\ main' = "crashed"
          /\ UNCHANGED <<running, second>>
       \/ /\ pidfile = "second" /\ second = "serving"
          /\ second' = "shutdown"
          /\ UNCHANGED <<main, running>>
       \/ /\ pidfile = "second" /\ second = "init"
          /\ second' = "stopped"
          /\ UNCHANGED <<main, running>>
    /\ UNCHANGED <<sockfile, pidfile>>
    /\ HostFrame

\* check_status, lines 434-457: when the process PID_FILE names is not
\* alive (os.kill(pid, 0) raises), PID_FILE and SOCKET_PATH are unlinked
check_status ==
    /\ \/ pidfile = "first" /\ main \in {"stopped", "crashed"}
       \/ pidfile = "second" /\ second = "stopped"
    /\ pidfile' = "none"
    /\ sockfile' = "none"
    /\ UNCHANGED <<main, running, second>>
    /\ HostFrame

\* the steps of the main thread from the loop test on
MainThread ==
    \/ LoopTest
    \/ AcceptTimeout
    \/ CleanupModule
    \/ CloseServer
    \/ RemoveFiles

\* SpecLife: the daemon from the end of discover_modules to the end of
\* _shutdown, with one connection after the other served meanwhile
LifeRequests ==
    {FaceHappy, LcdHi, Obj("", "status", NoParams),
     Obj("", "capabilities", NoParams)}

\* start(), lines 318-328: the stale socket file is gone, the PID file is
\* written and the modules are discovered
InitLife ==
    /\ order \in Orders
    /\ modules = Range(order)
    /\ base_upcall \in BOOLEAN
    /\ main = "init"
    /\ running = FALSE
    /\ server = "none"
    /\ sockfile = "none"
    /\ pidfile = "first"
    /\ second = "absent"
    /\ initlog = <<>>
    /\ init_failed = {}
    /\ wired = {}
    /\ cleanlog = <<>>
    /\ clean_failed = {}
    /\ late = 0
    /\ Fresh({FALSE})

NextLife ==
    \/ InitModule
    \/ Listen
    \/ _handle_signal
    \/ MainThread
    \/ \E w \in {"w1"} : AcceptConn(w, LifeRequests, MaxLifeRequests)
    \/ /\ main # "stopped"
       /\ \E w \in {"w1"} :
            \/ handle_message(w)
            \/ Respond(w)
            \/ Close(w)
            \/ ModuleCall(w)
            \/ ModuleReturn(w)
            \/ FaceBegin(w)
            \/ FaceFinish(w)
            \/ LcdBegin(w)
            \/ LcdFinish(w)

SpecLife == InitLife /\ [][NextLife]_vars

\* the operating system schedules the main thread, accept() returns within
\* its one-second timeout and every cleanup() returns or raises
SpecLifeFair == SpecLife /\ WF_vars(MainThread)

\* SpecHost: the daemon from the end of discover_modules to the end of
\* _shutdown on a host where a second daemon process is started once and
\* the status and stop tools are run at any time
NextHost ==
    \/ InitModule
    \/ Listen
    \/ ListenFails
    \/ _handle_signal
    \/ MainThread
    \/ SecondUnlink
    \/ SecondWritePid
    \/ SecondListen
    \/ SecondSignal
    \/ SecondShutdown
    \/ stop_daemon
    \/ check_status

SpecHost == InitLife /\ [][NextHost]_vars

\* ------------------------------------------------- numeric settings
\* max(lo, v) alone: the upper bound left out
ClampBelow(lo, hi, v) == Max(lo, v)

\* max(lo, min(hi, int(v))) for an integer v (face.py line 419, sound.py
\* line 180, touch.py line 126, lcd.py line 278)
Clamp(lo, hi, v) == Max(lo, Min(hi, v))

\* int(a / b) for b > 0: the quotient truncated towards zero
Trunc(a, b) == IF a >= 0 THEN a \div b ELSE -((-a) \div b)

\* c * n of Python: n copies of c, none for n <= 0
RECURSIVE Repeat(_, _)
Repeat(c, n) == IF n <= 0 THEN "" ELSE c \o Repeat(c, n - 1)

\* lcd.py, lines 283-286: the bar between its brackets
ProgressBar(percentage) ==
    LET bar_width == LCD_COLS - 2
        filled == Trunc(bar_width * percentage, 100)
    IN  "[" \o Repeat("#", filled) \o Repeat("-", bar_width - filled) \o "]"

\* the integers a parameter takes: each bound of a setting with its
\* neighbours on both sides, and integers far outside every bound
Levels ==
    {-MaxLevel, -1, 0, 1, 49, 50, 51, 99, 100, 101, 254, 255, 256, 1999, 2000,
     2001, MaxLevel}

\* what a command on a module that runs no effect worker leaves alone
SettingFrame ==
    UNCHANGED <<daemonVars, threadVars, workerVars, sensorVars, face, fx,
                histVars, lifeVars>>

\* FaceModule._cmd_brightness, lines 417-422, inside handle_message's lock;
\* an absent value is 128
_cmd_brightness(given, value) ==
    /\ lock = NoThread
    /\ settings' = [settings EXCEPT
                       !.brightness = Clamp(0, 255, IF given THEN value ELSE 128)]
    /\ UNCHANGED <<lcd, hw>>
    /\ SettingFrame

\* SoundModule._cmd_volume, lines 175-187; an absent level is an error and
\* nothing is stored
_cmd_volume(given, level) ==
    /\ lock = NoThread
    /\ settings' = IF given
                   THEN [settings EXCEPT !.volume = Clamp(0, 100, level)]
                   ELSE settings
    /\ UNCHANGED <<lcd, hw>>
    /\ SettingFrame

\* TouchModule._cmd_config, lines 123-141; an absent debounce_ms leaves the
\* setting
_cmd_config(given, debounce) ==
    /\ lock = NoThread
    /\ settings' = IF given
                   THEN [settings EXCEPT !.debounce_ms = Clamp(50, 2000, debounce)]
                   ELSE settings
    /\ UNCHANGED <<lcd, hw>>
    /\ SettingFrame

\* LCDModule._cmd_progress, lines 277-297, with no label and no scroll
\* worker to stop; an absent percentage is 0
_cmd_progress(given, percentage) ==
    /\ lock = NoThread
    /\ lcd.thread = 0
    /\ lcd' = [lcd EXCEPT
                  !.line1 = "",
                  !.line2 = ProgressBar(Clamp(0, 100, IF given THEN percentage ELSE 0))]
    /\ hw' = [hw EXCEPT !["lcd"] = Written(@, 0)]
    /\ UNCHANGED settings
    /\ SettingFrame

\* SpecSettings: the four commands, one after the other in any order, with
\* any of the integers as parameter or none
NextSettings ==
    \E given \in BOOLEAN, v \in Levels :
        \/ _cmd_brightness(given, v)
        \/ _cmd_volume(given, v)
        \/ _cmd_config(given, v)
        \/ _cmd_progress(given, v)

SpecSettings == Init /\ [][NextSettings]_vars

\* ===================================================================
\* Properties
\* ===================================================================

\* ------------------------------------------------------------------ C1
\* the threads inside a module's handle_command
Executing == {t \in Threads : hc[t].at # "none"}

\* C1: at any moment at most one handle_command call is executing, over all
\* modules and all threads: connection workers, compound steps and the
\* reaction of the event pipeline.
C1_OneHandleCommand ==
    /\ Cardinality(Executing) <= 1
    /\ \A t \in Executing : lock = t

\* a worker is inside handle_command while the reaction of a touch waits for
\* the lock and the other worker waits for it too
C1_Witness ==
    /\ hc["w1"].at # "none"
    /\ pc["gpio"] = "react_lock"
    /\ pc["w2"] = "lock_wait"

\* ------------------------------------------------------------------ C2
\* r answers the batch entry e: a nested batch is answered by a batch
\* response with one result per entry, ping by pong, an unregistered module
\* by the unknown-module error.
Answers(e, r) ==
    /\ e.shape = "object" => r.kind # "exception"
    /\ e.shape = "object" /\ e.hasBatch =>
           r.hasResults /\ Len(r.results) = Len(e.batch)
    /\ e.shape = "object" /\ ~e.hasBatch /\ e.module = "" /\ e.action = "ping" =>
           r = _ok("pong")
    /\ e.shape = "object" /\ ~e.hasBatch /\ e.module \notin {"", "totem"}
         /\ e.module \notin modules => r = UnknownModule(modules)

\* the response written to the connection is that of a batch request
BatchAnswered(w) == pc[w] = "close" /\ req[w].shape = "object" /\ req[w].hasBatch

\* C2: the response to a batch of N entries has a results list of length N,
\* results[i] being the response to entry i, and ok is the conjunction of
\* the entries' ok, whatever the entries are.
C2_BatchResults ==
    \A w \in Workers : BatchAnswered(w) =>
        /\ response[w].hasResults
        /\ Len(response[w].results) = Len(req[w].batch)
        /\ \A i \in 1..Len(response[w].results) :
               Answers(req[w].batch[i], response[w].results[i])
        /\ response[w].ok = all_ok(response[w].results)

\* every entry of the batch b, nested ones included, is a JSON object
RECURSIVE AllObjects(_)
AllObjects(b) ==
    \A i \in 1..Len(b) :
        /\ b[i].shape = "object"
        /\ b[i].hasBatch => AllObjects(b[i].batch)

\* C2 for the batches all of whose entries are JSON objects
C2_ObjectBatchResults ==
    \A w \in Workers : BatchAnswered(w) /\ AllObjects(req[w].batch) =>
        /\ response[w].hasResults
        /\ Len(response[w].results) = Len(req[w].batch)
        /\ \A i \in 1..Len(response[w].results) :
               Answers(req[w].batch[i], response[w].results[i])
        /\ response[w].ok = all_ok(response[w].results)

\* ------------------------------------------------------------------ C3
\* the envelope names a module that is neither reserved nor registered
NamesUnknown(msg) ==
    /\ msg.shape = "object"
    /\ ~msg.hasBatch
    /\ msg.module \notin {"", "totem"}
    /\ msg.module \notin modules

\* C3: an envelope naming an unregistered, unreserved module is answered at
\* once with the unknown-module error listing the registered modules; the
\* global lock is not taken, no handle_command is called and the state of
\* the modules and of the daemon stays as it was.
C3_UnknownModule ==
    [][\A w \in Workers :
          pc[w] = "handle_message" /\ pc'[w] # "handle_message" /\ NamesUnknown(cur[w]) =>
              /\ pc'[w] = "return"
              /\ ret'[w] = UnknownModule(modules)
              /\ ~ret'[w].ok
              /\ ret'[w].avail = modules
              /\ UNCHANGED <<lock, hc, face, lcd, touch, fx, hw, events, events_lock,
                             last_notify_time, modules>>]_vars

\* a request for a module that is not registered has got its error
C3_Witness ==
    \E w \in Workers :
        /\ pc[w] = "return"
        /\ NamesUnknown(cur[w])
        /\ ret[w].kind = "unknown_module"
        /\ ret[w].avail = modules

\* ------------------------------------------------------------------ C4
\* the numbers of the queued events, oldest first
Ids(q) == [i \in 1..Len(q) |-> q[i].n]

\* the last k elements of s
LastOf(s, k) == SubSeq(s, Len(s) - k + 1, Len(s))

\* C4: the queue never holds more than 100 events, and after k appends since
\* the last draining read it holds the last min(k, 100) of them in order.
C4_QueueBounded ==
    /\ Len(events) <= QueueCap
    /\ Ids(events) = LastOf(emitted, Min(Len(emitted), QueueCap))

\* more than 100 events were appended, the oldest have been dropped
C4_Witness ==
    /\ Len(emitted) > QueueCap
    /\ Len(events) = QueueCap
    /\ events[1].n = Len(emitted) - QueueCap + 1

\* ------------------------------------------------------------------ C5
\* C5: a read with peek returns the queued events and leaves the queue as it
\* is; a read without peek returns the same events and leaves the queue
\* empty; count is the number of events returned.
C5_PeekAndDrain ==
    [][\A w \in Workers :
          pc[w] = "get_events_locked" /\ pc'[w] # "get_events_locked" =>
              /\ pc'[w] = "return"
              /\ ret'[w].ok
              /\ ret'[w].events = events
              /\ ret'[w].count = Len(ret'[w].events)
              /\ cur[w].params.peek => events' = events
              /\ ~cur[w].params.peek => events' = <<>>]_vars

\* a peek has returned the events and they are still queued
C5_Witness ==
    \E w \in Workers :
        /\ pc[w] = "return"
        /\ cur[w].action = "events"
        /\ cur[w].params.peek
        /\ ret[w].count > 0
        /\ ret[w].events = events


\* ------------------------------------------------------------------ C6
\* the notifications started for event n
Dispatches(n) == {i \in 1..Len(dispatched) : dispatched[i].n = n}

\* C6 as stated: no two notifications are started for events whose
\* timestamps (line 123) are less than the cooldown apart.
C6_CooldownByTimestamp ==
    \A i, j \in 1..Len(dispatched) :
        i < j => dispatched[j].timestamp - dispatched[i].timestamp >= NotifyCooldown

\* C6: no two notifications are started for events whose cooldown tests
\* (the time read at line 138) are less than the cooldown apart, and of two
\* touched events tested less than the cooldown apart at most one is
\* notified.
C6_CooldownByTestTime ==
    /\ \A i, j \in 1..Len(dispatched) :
           i < j => dispatched[j].at - dispatched[i].at >= NotifyCooldown
    /\ \A i, j \in 1..Len(tests) :
           i < j /\ tests[j].at - tests[i].at < NotifyCooldown =>
               Dispatches(tests[i].n) = {} \/ Dispatches(tests[j].n) = {}
    /\ \A i \in 1..Len(dispatched) : Cardinality(Dispatches(dispatched[i].n)) = 1

\* two notifications were started, for events whose timestamps are less than
\* the cooldown apart
C6_Witness ==
    /\ Len(dispatched) = 2
    /\ dispatched[2].timestamp - dispatched[1].timestamp < NotifyCooldown
    /\ dispatched[2].at - dispatched[1].at >= NotifyCooldown

\* ------------------------------------------------------------------ C7
\* the reaction to event n waits for the global lock
Pending(n) == \E g \in Sensors : pc[g] = "react_lock" /\ ev[g].n = n

\* C7 as stated: the reaction runs for every touched event, whatever the
\* cooldown.
C7_ReactionOnEveryTouch ==
    \A i \in 1..Len(tests) : tests[i].n \in reacted \/ Pending(tests[i].n)

\* C7: the reaction runs for exactly the touched events whose cooldown had
\* elapsed at their test, whether notifications are enabled or not.
C7_ReactionAfterCooldown ==
    /\ \A i \in 1..Len(tests) :
           tests[i].at - tests[i].last >= NotifyCooldown
               <=> (tests[i].n \in reacted \/ Pending(tests[i].n))
    /\ \A n \in reacted : \E i \in 1..Len(tests) : tests[i].n = n

\* with notifications off, one touched event got its reaction and a later
\* one, inside the cooldown, got none
C7_Witness ==
    /\ ~notify
    /\ dispatched = <<>>
    /\ \E i, j \in 1..Len(tests) :
           /\ i < j
           /\ tests[i].n \in reacted
           /\ tests[j].n \notin reacted
           /\ ~Pending(tests[j].n)

\* ------------------------------------------------------------------ C8
\* C8: a touched event tested before the cooldown has elapsed has been
\* appended to the queue, and neither the reaction nor a notification is
\* performed for it.
C8_SuppressedTouch ==
    \A i \in 1..Len(tests) :
        tests[i].at - tests[i].last < NotifyCooldown =>
            /\ tests[i].n \in stored
            /\ tests[i].n \notin reacted
            /\ ~Pending(tests[i].n)
            /\ Dispatches(tests[i].n) = {}
            /\ \A g \in Sensors : hc[g].at # "none" => ev[g].n # tests[i].n

\* a touched event inside the cooldown is in the queue, its upcall over
C8_Witness ==
    \E i \in 1..Len(tests) :
        /\ tests[i].at - tests[i].last < NotifyCooldown
        /\ \E k \in 1..Len(events) :
               events[k].n = tests[i].n /\ events[k].event = "touched"
        /\ pc["gpio"] = "idle"

\* ------------------------------------------------------------------ C9
\* C9: a thread emitting an event takes only the lock of the event queue and
\* never waits for the global lock.
C9_EmitterNeverWaitsForLock ==
    \A g \in Sensors :
        /\ lock # g
        /\ ~(pc[g] = "react_lock" /\ ~LockFree(lock))

\* ----------------------------------------------------------------- C10
\* a worker of module m has written after a newer worker of m has
LateWrite(m) == hw[m].last # 0 /\ \E k \in hw[m].wrote : k > hw[m].last

\* C10 as stated: once the new effect has written, the previous worker
\* writes no more, the join having timed out or not.
C10_OldWorkerSilent == \A m \in {"face", "lcd"} : ~LateWrite(m)

\* C10: a worker the join has waited for until it ended writes nothing after
\* the new effect's first write; only a worker whose join timed out does.
C10_JoinedWorkerSilent ==
    /\ \A m \in {"face", "lcd"} : LateWrite(m) => hw[m].last \in orphans
    /\ \A k \in joined : ~Alive(k)

\* a running worker was stopped and joined, and the worker of the new effect
\* has written after it
C10_Witness ==
    \E m \in {"face", "lcd"} : \E j \in joined :
        /\ j \in hw[m].wrote
        /\ hw[m].last > j
        /\ fx[hw[m].last].kind \in {"thinking", "sequence", "scroll"}

\* ----------------------------------------------------------------- C11
\* thread t is inside handle_command of module m at a write to the device:
\* a drawing or low-level command, or the write that follows the join
CommandWrites(t, m) ==
    /\ hc[t].mod = m
    /\ \/ hc[t].at = "writing"
       \/ /\ hc[t].at = "stopped"
          /\ hc[t].action \in {"expression", "custom", "blink", "write", "clear",
                               "progress"}

\* effect worker k of module m is alive, at a write to the device
WorkerWrites(k, m) == fx[k].mod = m /\ fx[k].pc = "write"

\* C11: in no state does a module's handle_command write to the device while
\* the module's effect worker is alive and writing to it too, whatever the
\* action is.
C11_OneWriter ==
    \A m \in {"face", "lcd"} : \A t \in Threads : \A k \in 1..Len(fx) :
        ~(CommandWrites(t, m) /\ WorkerWrites(k, m))


\* ----------------------------------------------------------------- C12
\* the positions of the emitting thread from the reaction's face step to the
\* end of its lcd step
InReaction == {"react_face_call", "react_lcd", "react_lcd_call"}

\* C12: from the reaction's face step to its lcd step the emitting thread
\* holds the global lock and no connection worker is inside a handle_command.
C12_ReactionAtomic ==
    \A g \in Sensors : pc[g] \in InReaction =>
        /\ lock = g
        /\ \A w \in Workers : hc[w].at = "none"

\* the reaction is between its two steps while both connections wait for
\* the lock with a module command
C12_Witness ==
    /\ pc["gpio"] = "react_lcd"
    /\ ev["gpio"].n \in reacted
    /\ \A w \in Workers : pc[w] = "lock_wait"

\* ----------------------------------------------------------------- C13
\* express of worker w has done its face step and its lcd step is to come
BetweenExpressSteps(w) ==
    /\ pc[w] = "express_lcd"
    /\ results[w] # <<>>
    /\ "lcd" \in modules
    /\ cur[w].params.text # ""

\* C13: between the face step and the lcd step of express no other thread,
\* connection worker or event reaction, is inside a handle_command.
C13_ExpressAtomic ==
    \A w \in Workers : BetweenExpressSteps(w) =>
        \A t \in Threads \ {w} : hc[t].at = "none"


\* ----------------------------------------------------------------- C14
\* the answers of the sub-steps express performs for the parameters p: the
\* face step when a face is registered, the lcd step when an lcd is
\* registered and the message is not empty
ExpressSteps(p) ==
    (IF "face" \in modules
     THEN <<IF get_expression(Emotion(p)) THEN _ok("expression")
            ELSE _err("unknown_expression")>>
     ELSE <<>>)
    \o (IF "lcd" \in modules /\ p.text # "" THEN <<_ok("write")>> ELSE <<>>)

\* express has returned to worker w
ExpressReturned(w) == pc[w] = "return" /\ ret[w].kind = "express"

Frame(w) == Head(stack[w])

\* C15: the entries of a batch are run in list order by the calling worker,
\* each started when the ones before it have returned; the batch returns
\* when every entry has been run, whatever the entries answered; and taking
\* an entry's answer, ok or not, changes nothing the entries before it did.
C15_BatchInOrder ==
    [][\A w \in Workers :
          /\ pc[w] = "handle_batch" /\ pc'[w] = "handle_message" =>
                 /\ cur'[w] = Frame(w).cmds[Len(Frame(w).results) + 1]
                 /\ hc[w].at = "none"
                 /\ lock # w
          /\ pc[w] = "handle_batch" /\ pc'[w] = "return" =>
                 /\ Len(Frame(w).results) = Len(Frame(w).cmds)
                 /\ ret'[w].results = Frame(w).results
          /\ pc[w] = "return" /\ pc'[w] = "handle_batch" =>
                 /\ stack'[w][1].results = Append(Frame(w).results, ret[w])
                 /\ stack'[w][1].cmds = Frame(w).cmds
                 /\ UNCHANGED <<face, lcd, touch, events, hw, fx>>]_vars

\* the first entry of a batch answered ok: false, the second was run after
\* it and its effect is there
C15_Witness ==
    \E w \in Workers :
        /\ pc[w] = "handle_batch"
        /\ Len(Frame(w).cmds) = 2
        /\ Frame(w).cmds[2] = LcdHi
        /\ Len(Frame(w).results) = 2
        /\ ~Frame(w).results[1].ok
        /\ Frame(w).results[2] = _ok("write")
        /\ lcd.line1 = "hi"


\* ----------------------------------------------------------------- C16
\* worker w is between two entries of a batch: one has returned, one is to
\* come or is running
BetweenBatchEntries(w) ==
    /\ stack[w] # <<>>
    /\ Frame(w).results # <<>>
    /\ Len(Frame(w).results) < Len(Frame(w).cmds)

\* C16: between two entries of a batch no other thread, connection worker or
\* event reaction, is inside a handle_command.
C16_BatchAtomic ==
    \A w \in Workers : BetweenBatchEntries(w) /\ hc[w].at = "none" =>
        \A t \in Threads \ {w} : hc[t].at = "none"



\* ----------------------------------------------------------------- C17
\* the module names a client has been told of: the keys of a status or
\* capabilities answer and the "Available" list of an unknown-module error
Exposed == UNION {ret[w].avail \cup response[w].avail : w \in Workers}

\* C17: init() is called once on each discovered module, in discovery
\* order, and a failed init() stops none of the later calls; a module whose
\* init() raised is out of the registry, no handle_command is called on it
\* and no status, capabilities or unknown-module answer names it.
C17_InitOnceEvictFailed ==
    /\ Len(initlog) <= Len(order)
    /\ \A i \in 1..Len(initlog) : initlog[i] = order[i]
    /\ main # "init" => initlog = order
    /\ init_failed \cap modules = {}
    /\ \A t \in Threads : hc[t].at # "none" => hc[t].mod \notin init_failed
    /\ Exposed \cap init_failed = {}

\* a module failed to initialise, one discovered after it is registered,
\* and a client asked for the failed one and was told which are available
C17_Witness ==
    /\ \E i, j \in 1..Len(order) :
           i < j /\ order[i] \in init_failed /\ order[j] \in modules
    /\ \E w \in Workers :
           /\ response[w].kind = "unknown_module"
           /\ req[w].module \in init_failed
           /\ response[w].avail = modules



\* ----------------------------------------------------------------- C18
\* C18: once init_modules is over the registry is the discovered modules
\* whose init() returned, each with the event upcall wired, and no command
\* is dispatched before that; a module whose init() returned is never
\* evicted.
C18_RegistryIsInitialised ==
    /\ (Range(initlog) \ init_failed) \subseteq modules
    /\ main # "init" =>
           /\ modules = Range(order) \ init_failed
           /\ wired = modules
    /\ \A t \in Threads : hc[t].at # "none" => main # "init" /\ hc[t].mod \in wired



\* ----------------------------------------------------------------- C19
\* the registered modules in the order cleanup_modules visits them
Registered == SelectSeq(order, LAMBDA m : m \in modules)

\* C19: cleanup() is called at shutdown only, on registered modules only,
\* in registry order and never twice on one module; when cleanup_modules is
\* over every registered module has had its call, whichever calls raised;
\* and the daemon stops with the socket closed and both files removed.
C19_CleanupOnceEach ==
    /\ Len(cleanlog) <= Len(Registered)
    /\ \A i \in 1..Len(cleanlog) : cleanlog[i] = Registered[i]
    /\ \A i, j \in 1..Len(cleanlog) : i # j => cleanlog[i] # cleanlog[j]
    /\ clean_failed \subseteq Range(cleanlog)
    /\ cleanlog # <<>> => main \in {"cleanup", "unlink", "stopped"}
    /\ main \in {"unlink", "stopped"} => cleanlog = Registered
    /\ main \in {"unlink", "stopped"} => server = "closed"
    /\ main = "stopped" => sockfile = "none" /\ pidfile = "none"

\* the daemon has stopped; the first cleanup() raised, the ones after it
\* were called all the same, and the socket and the files are gone
C19_Witness ==
    /\ main = "stopped"
    /\ Len(cleanlog) >= 2
    /\ cleanlog[1] \in clean_failed
    /\ cleanlog[Len(cleanlog)] \notin clean_failed
    /\ cleanlog = Registered
    /\ server = "closed" /\ sockfile = "none" /\ pidfile = "none"



\* ----------------------------------------------------------------- C20
\* the stopped state: socket closed, socket file and PID file removed
Stopped == main = "stopped" /\ server = "closed" /\ sockfile = "none" /\ pidfile = "none"

\* C20: once a signal has cleared self._running in the accept loop, at most
\* one more connection is accepted, none after the loop is left, and the
\* daemon reaches the stopped state with the socket closed and both files
\* removed.
C20_ShutdownCompletes ==
    /\ [](late <= 1)
    /\ [][(main \in {"cleanup", "unlink", "stopped"}) => (served' = served)]_vars
    /\ (main \in {"loop", "accept"} /\ ~running) ~> Stopped

\* the signal came while accept() was waiting, that accept() still returned
\* a connection, and the daemon stopped
C20_Witness ==
    /\ Stopped
    /\ ~running
    /\ late = 1



\* ----------------------------------------------------------------- C21
\* worker w has read a complete JSON value from its connection
Complete(w) == req[w].shape \notin {"none", "invalid", "undecodable"}

C22_DisconnectAbandoned ==
    \A w \in Workers :
        req[w].shape \in {"none", "invalid"} =>
            pc[w] \in {"idle", "recv", "close"} /\ response[w] = NoResp



\* ----------------------------------------------------------------- C23
\* r does not parse as a command envelope: a text that is no JSON, a JSON
\* value that is no object, or a batch value that is no list
ParseFailure(r) ==
    \/ r.shape \in {"invalid", "number", "string"}
    \/ r.shape = "object" /\ r.hasBatch /\ r.batchIs # "list"

\* C23: a connection whose request does not parse as an envelope is
\* answered ok: false, and the worker's steps on it change no module state,
\* no event queue and no cooldown timestamp.
C23_ParseFailureAnswered ==
    [][\A w \in Workers :
          (ParseFailure(req[w]) /\ pc'[w] # pc[w]) =>
              /\ UNCHANGED <<face, lcd, touch, events, last_notify_time>>
              /\ (pc'[w] = "close" /\ pc[w] \in {"return", "raise"}) =>
                     /\ response'[w] # NoResp
                     /\ ~response'[w].ok]_vars



\* ----------------------------------------------------------------- C24
\* worker w is inside handle_message on the status action
AtStatus(w) ==
    /\ pc[w] = "handle_message"
    /\ Route(cur[w], modules) = "system"
    /\ cur[w].action = "status"

\* C24: status answers ok: true with one entry per registered module; the
\* entry of a module whose get_state() raised is an inline error, the entry
\* of every other module is that module's state at the call.
C24_StatusIsolatesFaults ==
    [][\A w \in Workers : AtStatus(w) /\ pc'[w] # pc[w] =>
          /\ pc'[w] = "return"
          /\ ret'[w].ok
          /\ ret'[w].kind = "status"
          /\ ret'[w].avail = modules
          /\ ret'[w].failed \subseteq modules
          /\ DOMAIN ret'[w].snap = modules \ ret'[w].failed
          /\ \A m \in modules \ ret'[w].failed : ret'[w].snap[m] = get_state(m)
          /\ UNCHANGED <<face, lcd, touch>>]_vars

\* the face's get_state() raised; the answer is ok: true and holds the text
\* the lcd shows
C24_Witness ==
    \E w \in Workers :
        /\ response[w].ok
        /\ response[w].kind = "status"
        /\ response[w].failed = {"face"}
        /\ "lcd" \in response[w].avail
        /\ response[w].snap["lcd"].s1 = "hi"



\* ----------------------------------------------------------------- C25
\* the call c names an action that is not in its module's dispatch table
UnknownAction(c) ==
    \/ c.mod = "face" /\ c.action \notin FaceStopping \cup FaceDrawing
    \/ c.mod = "lcd" /\ c.action \notin LcdStopping \cup LcdDrawing
    \/ c.mod = "touch" /\ c.action \notin {"read", "config", "reset"}

\* C25: a handle_command call ends only by returning a Response to its
\* caller, also when a fault occurs inside it; a call of an action outside
\* the dispatch table returns ok: false at once and changes neither the
\* module's state nor the device nor a running effect worker.
C25_HandleCommandNeverRaises ==
    [][\A t \in Threads :
          /\ (hc[t].at # "none" /\ hc'[t].at = "none") =>
                 /\ hc[t].at = "ret"
                 /\ hres[t] # NoResp
                 /\ t \in Workers => pc'[t] = "return" /\ ret'[t] = hres[t]
          /\ (hc[t].at = "begin" /\ UnknownAction(hc[t]) /\ hc'[t] # hc[t]) =>
                 /\ hc'[t].at = "ret"
                 /\ hres'[t] = _err("unknown_action")
                 /\ UNCHANGED <<face, lcd, touch, fx, hw>>]_vars

\* an unknown face action has been answered while the animation worker
\* runs on, its stop event not set
C25_Witness ==
    \E t \in Threads :
        /\ hc[t].at = "ret"
        /\ hc[t].mod = "face"
        /\ hc[t].action = "nosuch"
        /\ hres[t] = _err("unknown_action")
        /\ Alive(face.thread)
        /\ ~face.stop
        /\ fx[face.thread].pc = "write"



\* ----------------------------------------------------------------- C26
\* C26: without a notifier (notifications disabled or the executable not
\* found at start) no notification is ever started, and a touched event
\* whose cooldown has elapsed still gets the reaction: the face shows
\* "surprised" when the face step is over and the lcd the message when the
\* lcd step is over, on the modules that are registered.
C26_ReactionWithoutNotifier ==
    ~notify =>
        /\ dispatched = <<>>
        /\ \A i \in 1..Len(tests) :
               tests[i].at - tests[i].last >= NotifyCooldown =>
                   tests[i].n \in reacted \/ Pending(tests[i].n)
        /\ \A g \in Sensors :
               /\ (pc[g] = "react_lcd" /\ "face" \in modules) =>
                      face.expr = "surprised"
               /\ (pc[g] = "react_lcd_call" /\ hc[g].at = "ret") =>
                      lcd.line1 = "I felt that!"
               /\ pc[g] = "dispatch" => ev[g].n \in reacted

\* without a notifier and without a face, the reaction to an accepted
\* touched event is over, the lcd shows the message and the callback is
\* back at rest
C26_Witness ==
    /\ ~notify
    /\ "face" \notin modules
    /\ reacted # {}
    /\ lcd.line1 = "I felt that!"
    /\ dispatched = <<>>
    /\ \A g \in Sensors : pc[g] = "idle"



\* ----------------------------------------------------------------- C27
\* C27: a connection worker holds the global lock exactly while it is
\* inside a handle_command call, whether the call ends in a result or in a
\* caught fault; with every call returned the lock is free, whatever effect
\* workers are running.
C27_LockOnlyDuringCall ==
    /\ \A w \in Workers : lock = w <=> hc[w].at # "none"
    /\ (\A t \in Threads : hc[t].at = "none") => lock = NoThread

\* the animation an earlier connection started is drawing a frame while the
\* next connection's command has been dispatched under the lock
C27_Witness ==
    \E w \in Workers :
        /\ served = 2
        /\ lock = w
        /\ hc[w].at = "begin"
        /\ Alive(face.thread)
        /\ fx[face.thread].pc = "write"
        /\ ~face.stop



\* ----------------------------------------------------------------- C28
\* worker w is inside handle_message on one of ping, status, capabilities
\* and events with peek = true
ReadingSystem(w) ==
    /\ pc[w] \in {"handle_message", "get_events", "get_events_locked"}
    /\ cur[w] \in SystemReads

\* C28: ping is answered ok: true with pong in whatever state it arrives;
\* the steps of ping, status, capabilities and a peeking events read change
\* no module state, no device, no event queue and no cooldown timestamp, and
\* neither take the global lock nor wait for it.
C28_SystemReadsOnly ==
    /\ [][\A w \in Workers : (ReadingSystem(w) /\ pc'[w] # pc[w]) =>
              /\ UNCHANGED <<face, lcd, touch, hw, fx, events, last_notify_time, lock>>
              /\ pc'[w] \in {"return", "get_events", "get_events_locked"}
              /\ (cur[w] = Ping) => (pc'[w] = "return" /\ ret'[w] = _ok("pong"))]_vars
    /\ [](\A w \in Workers :
              (pc[w] = "handle_message" /\ cur[w] \in SystemReads) =>
                  ENABLED handle_message(w))

\* ping has been answered while another thread holds the global lock and
\* events wait in the queue
C28_Witness ==
    \E w \in Workers :
        /\ pc[w] = "return"
        /\ cur[w] = Ping
        /\ ret[w] = _ok("pong")
        /\ lock \notin {NoThread, w}
        /\ events # <<>>



\* ----------------------------------------------------------------- C29
\* the notification subsystem is Idle: the cooldown since the last accepted
\* event is over
Idle == clock - last_notify_time >= NotifyCooldown

\* the callback thread g is at the cooldown test of a touched event
Qualifying(g) == pc[g] = "cooldown" /\ ev[g].event = "touched"

\* C29: the cooldown timestamp changes only at the test of a touched event
\* in Idle, to the time of that test; a touched event tested in
\* CooldownActive leaves the timestamp as it is and its upcall ends there,
\* with no reaction and no notification then or later.
C29_CooldownMachine ==
    /\ [][last_notify_time' # last_notify_time =>
              \E g \in Sensors :
                  /\ Qualifying(g)
                  /\ Idle
                  /\ pc'[g] = "react_lock"
                  /\ last_notify_time' = clock]_vars
    /\ [][\A g \in Sensors : (Qualifying(g) /\ pc'[g] # pc[g]) =>
              IF Idle
              THEN pc'[g] = "react_lock" /\ last_notify_time' = clock
              ELSE pc'[g] = "idle" /\ last_notify_time' = last_notify_time]_vars
    /\ [](\A i \in 1..Len(tests) :
              tests[i].at - tests[i].last < NotifyCooldown =>
                  /\ tests[i].n \notin reacted
                  /\ Dispatches(tests[i].n) = {})

\* a touched event was accepted and a later one suppressed; the subsystem
\* is Idle again by the accepted event's time, though the cooldown counted
\* from the suppressed one would still run
C29_Witness ==
    /\ Len(tests) = 2
    /\ tests[1].at - tests[1].last >= NotifyCooldown
    /\ tests[2].at - tests[2].last < NotifyCooldown
    /\ last_notify_time = tests[1].at
    /\ Idle
    /\ clock - tests[2].at < NotifyCooldown
    /\ \A g \in Sensors : pc[g] = "idle"


\* C30: a non-peek read returns no event that an earlier non-peek read
\* returned, returns its events in the order they were emitted, and returns
\* every event that was followed by fewer than QueueCap events since the
\* non-peek read before it.
Draining(w) ==
    /\ pc[w] = "get_events_locked"
    /\ ~cur[w].params.peek

C30_EventsDeliveredOnce ==
    [][\A w \in Workers :
         (Draining(w) /\ pc'[w] = "return") =>
            LET out == ret'[w].events
            IN  /\ \A i \in 1..Len(out) : out[i].n \notin delivered
                /\ \A i, j \in 1..Len(out) : i < j => out[i].n < out[j].n
                /\ \A k \in 1..Len(emitted) :
                       Len(emitted) - k < QueueCap =>
                           \E i \in 1..Len(out) : out[i].n = emitted[k]]_vars

\* a non-peek read has returned events after an earlier one returned others,
\* one of which had dropped events of the queue that no read ever returned
C30_Witness ==
    \E w \in Workers :
        /\ pc[w] = "return"
        /\ ~cur[w].params.peek
        /\ ret[w].kind = "events"
        /\ ret[w].count > 0
        /\ Cardinality(delivered) > ret[w].count
        /\ \E n \in stored \ delivered : \E m \in delivered : n < m


\* ----------------------------------------------------------------- C31
\* C31: under concurrent touch commands and sensor callbacks every thread
\* that requests a lock acquires it in the end and every started command
\* returns a response.
C31_TouchDeadlockFree ==
    /\ \A w \in Workers : (hc[w].at = "touch_lock") ~> (hc[w].at # "touch_lock")
    /\ \A g \in Sensors : (pc[g] = "react_lock") ~> (lock = g)
    /\ \A w \in Workers : (pc[w] = "handle_message") ~> (pc[w] = "idle")


\* ----------------------------------------------------------------- C32
\* C32: once cleanup() has started on a module no thread is inside a
\* handle_command of that module, so cleanup() never runs beside a
\* handle_command and none is performed after it.
C32_CleanupExcludesCommands ==
    \A m \in Range(cleanlog) :
        \A t \in Threads : ~(hc[t].mod = m /\ hc[t].at # "none")


\* ----------------------------------------------------------------- C33
\* an effect worker k has made a hardware write in this step
Wrote(k) == fx[k].pc = "write" /\ fx'[k] # fx[k]

\* The frame discipline of every effect worker: a write is followed by a
\* frame boundary, and a worker that finds its stop event set at a boundary
\* writes no more and goes on to its end.
StopChecked ==
    [][\A k \in 1..Len(fx) :
         /\ Wrote(k) => fx'[k].pc = "for"
         /\ (StopSet(k) /\ fx[k].pc = "for" /\ fx'[k] # fx[k]) =>
                fx'[k].pc \in {"while", "end", "dead"}
         /\ (StopSet(k) /\ fx[k].pc = "while" /\ fx'[k] # fx[k]) =>
                fx'[k].pc \in {"end", "dead"}
         /\ (fx[k].pc = "end" /\ fx'[k] # fx[k]) => fx'[k].pc = "dead"]_vars

\* effect worker k has been started and its thread has not ended
Running(k) == k <= Len(fx) /\ Alive(k)

\* effect worker k runs with its stop event set
Stopping(k) == Running(k) /\ StopSet(k)

\* C33 as stated: an effect worker tests the stop event at every frame
\* boundary, so that once the event is set it writes at most once more, and
\* it then terminates.
C33_StopEndsWorker ==
    /\ StopChecked
    /\ \A k \in 1..MaxStopRequests : Stopping(k) ~> ~Running(k)

\* C33: an effect worker tests the stop event at every frame boundary, so
\* that once the event is set it writes at most once more, and it then
\* terminates unless the join that waited for it has timed out, after which
\* the start of a new effect may clear the event before the worker tests it.
C33_StopEndsJoinedWorker ==
    /\ StopChecked
    /\ \A k \in 1..MaxStopRequests : Stopping(k) ~> (~Running(k) \/ k \in orphans)

\* a worker that has written to its device was stopped, the command that
\* stopped it has joined it within the time, and its thread has ended
C33_Witness ==
    \E k \in joined :
        /\ ~Alive(k)
        /\ k \notin orphans
        /\ \E m \in {"face", "lcd"} : k \in hw[m].wrote


\* ----------------------------------------------------------------- C34
\* where the step handle_message takes has sent the envelope of worker w
Destination(w) ==
    CASE pc'[w] \in {"handle_batch", "raise"} -> "batch"
      [] pc'[w] = "get_events" -> "system"
      [] pc'[w] = "express_face" -> "compound"
      [] pc'[w] = "lock_wait" -> "module"
      [] pc'[w] = "return" /\ ret'[w].kind \in {"pong", "status", "capabilities",
                                                 "unknown_system_action"} -> "system"
      [] pc'[w] = "return" /\ ret'[w].kind = "unknown_compound_action" -> "compound"
      [] pc'[w] = "return" /\ ret'[w].kind = "unknown_module" -> "module"
      [] OTHER -> "none"

\* the system and the compound actions the code defines (lines 247-274, 281)
SystemActions == {"ping", "status", "capabilities", "events"}
CompoundActions == {"express"}

\* C34: an object envelope goes to the batch handler when it has the key
\* batch, whatever its module and action; else to the system actions when
\* its module is empty; else to the compound actions when its module is
\* totem, registered or not; else to the named module.  An undefined system
\* or compound action is answered ok: false and changes nothing.
C34_RoutePriority ==
    [][\A w \in Workers :
         (pc[w] = "handle_message" /\ pc'[w] # "handle_message"
              /\ cur[w].shape = "object") =>
            LET msg == cur[w]
            IN  /\ Destination(w) =
                       IF msg.hasBatch THEN "batch"
                       ELSE IF msg.module = "" THEN "system"
                       ELSE IF msg.module = "totem" THEN "compound"
                       ELSE "module"
                /\ (~msg.hasBatch /\ msg.module # "" /\ msg.module # "totem") =>
                       (pc'[w] = "lock_wait" <=> msg.module \in modules)
                /\ (~msg.hasBatch
                      /\ \/ msg.module = "" /\ msg.action \notin SystemActions
                         \/ msg.module = "totem" /\ msg.action \notin CompoundActions) =>
                       /\ pc'[w] = "return"
                       /\ ~ret'[w].ok
                       /\ UNCHANGED <<daemonVars, hc, hres, sensorVars, moduleVars,
                                      histVars, lifeVars, settings, stack, response>>]_vars

\* a command with an undefined action for a module named totem, which is
\* registered, was answered by the compound actions
C34_Witness ==
    \E w \in Workers :
        /\ "totem" \in modules
        /\ pc[w] = "return"
        /\ stack[w] = <<>>
        /\ cur[w].module = "totem"
        /\ ~cur[w].hasBatch
        /\ ret[w].kind = "unknown_compound_action"


\* ----------------------------------------------------------------- C35
\* C35: the worker reads until the bytes it holds parse as a JSON value or
\* the client closes its sending side, and leaves the read loop for nothing
\* else; it routes the bytes it then holds, and from there to the close it
\* reads no more.
C35_FramedAtFirstParse ==
    [][\A w \in Workers :
         /\ (pc[w] = "recv" /\ pc'[w] # "recv") =>
                \/ pc'[w] = "handle_message" /\ cur'[w] = req'[w]
                \/ pc'[w] = "close" /\ req[w].shape = "none"
         /\ pc[w] \notin {"recv", "idle", "close"} =>
                (pc'[w] # "recv" /\ req'[w] = req[w])]_vars


\* ----------------------------------------------------------------- C36
\* the callback thread g is inside the upcall of an event that is no touch
Untouched(g) == ev[g].event \notin {"", "touched"}

\* C36: the upcall of an event whose type is not "touched" appends the event
\* to the queue and does nothing else: the thread takes no global lock,
\* enters no handle_command, starts no notification and leaves the cooldown
\* timestamp as it is.
C36_OtherEventsOnlyQueued ==
    [][\A g \in Sensors :
         (Untouched(g) /\ pc'[g] # pc[g]) =>
            /\ pc[g] \in {"on_event", "store", "cooldown"}
            /\ pc'[g] \in {"store", "cooldown", "idle"}
            /\ pc[g] = "store" => events' = Trim(Append(events, Queued(ev[g])))
            /\ pc[g] # "store" => events' = events
            /\ lock' = lock /\ lock # g
            /\ hc'[g] = NoCall
            /\ UNCHANGED <<last_notify_time, dispatched, reacted, tests, face, lcd,
                           hw>>]_vars

\* a released event is in the queue and its upcall is over, at a time when
\* a touch would have got the reaction
C36_Witness ==
    /\ \E k \in 1..Len(events) : events[k].event = "released"
    /\ \A g \in Sensors : pc[g] = "idle"
    /\ CooldownElapsed(clock, last_notify_time)


\* ----------------------------------------------------------------- C37
\* C37: the touch sensor emits touched and released in turn, touched first;
\* is_touched is true exactly from a touched event to the next released
\* one; and touch_count is the number of touched events emitted since the
\* last reset, or since init.
C37_TouchAlternates ==
    /\ [](touch.is_touched <=> sent.last = "touched")
    /\ [](touch.touch_count = sent.touches)
    /\ [][nev' # nev =>
            /\ sent'.last # sent.last
            /\ sent'.last \in {"touched", "released"}
            /\ sent.last = "" => sent'.last = "touched"]_vars

\* after a touch, a release and a reset the sensor has emitted a second
\* touch, which the count shows alone, and edges that changed nothing came
\* in between
C37_Witness ==
    /\ nev = 3
    /\ sent = [last |-> "touched", touches |-> 1]
    /\ touch.touch_count = 1
    /\ touch.is_touched
    /\ \A g \in Sensors : pc[g] = "idle"


\* ----------------------------------------------------------------- C38
\* no thread is inside a handle_command of the face
FaceQuiet == \A t \in Threads : ~(hc[t].mod = "face" /\ hc[t].at # "none")

\* C38: whenever no face command is executing, current_animation is set
\* only while the animation worker is alive, and current_expression and
\* current_animation are not both set.
C38_FaceStateConsistent ==
    FaceQuiet =>
        /\ face.anim # "none" => Alive(face.thread)
        /\ ~(face.expr # "none" /\ face.anim # "none")


\* ----------------------------------------------------------------- C39
\* this daemon is in its accept loop with self._running set
FirstServing == main \in {"loop", "accept"} /\ running

\* C39: whenever a daemon is serving, SOCKET_PATH names the socket it bound
\* and PID_FILE holds its process id.
C39_FilesNameServingDaemon ==
    /\ FirstServing => sockfile = "first" /\ pidfile = "first"
    /\ second = "serving" => sockfile = "second" /\ pidfile = "second"


\* ----------------------------------------------------------------- C40
\* C40: the stored brightness is in 0..255, the volume in 0..100 and
\* debounce_ms in 50..2000, and a progress bar on the display has 16
\* characters: the brackets around 0 to 14 "#" followed by "-".
C40_SettingsInBounds ==
    /\ settings.brightness \in 0..255
    /\ settings.volume \in 0..100
    /\ settings.debounce_ms \in 50..2000
    /\ lcd.line2 # "" =>
           /\ Len(lcd.line2) = 16
           /\ \E f \in 0..14 :
                  lcd.line2 = "[" \o Repeat("#", f) \o Repeat("-", 14 - f) \o "]"

\* every setting has been moved to a bound it is clamped to and the bar
\* is full
C40_Witness ==
    /\ settings = [brightness |-> 255, volume |-> 0, debounce_ms |-> 2000]
    /\ lcd.line2 = "[##############]"

====
